---------------------------- MODULE Spec2Model ----------------------------
(***************************************************************************)
(* A model of the NDBC proxy of scripps-surf-widget: the serverless        *)
(* handler of api/surf/scripps.js (cache slot, ordered candidate fetches   *)
(* with a timeout, feed parsing, timestamp check, cache update), run by    *)
(* several concurrent requests over one shared cache slot.                 *)
(*                                                                         *)
(* Conventions.  A JavaScript value that may be null or undefined is an    *)
(* option: Null (the empty tuple) or <<v>>.  Text is a TLA+ string and is  *)
(* processed character by character.  A number is a decimal [m, e]         *)
(* standing for m / 10^e, kept normalised (no trailing zero in m while     *)
(* e > 0), so arithmetic is exact where the code's is IEEE double.         *)
(* Positions in rows and headers are 1-based here and 0-based in the code. *)
(* Time is in milliseconds, as Date.now() gives it.                        *)
(***************************************************************************)
EXTENDS Integers, Sequences, FiniteSets, TLC

(***************************************************************************)
(* Bounds of the model                                                     *)
(***************************************************************************)
\* Requests that arrive, and may overlap, where requests share the cache.
MaxRuns == 3
\* Times the upstream replaces its feed.
MaxUpdates == 1
\* Milliseconds the clock advances after the first request has arrived: the
\* cache TTL and four timeouts.
MaxElapsed == 340000
\* Date.now() when the first request arrives (any positive instant).
StartInstant == 1000000
\* Loads the page starts.
MaxLoads == 2
\* Milliseconds the page's clock runs: one refresh interval and the
\* attempts of a load.
MaxWall == 650000

(***************************************************************************)
(* Configuration (scripps.js 6-10)                                         *)
(***************************************************************************)
CACHE_TTL == 5 * 60 * 1000
FETCH_TIMEOUT == 10000

Null == <<>>
Some(v) == <<v>>

Min(S) == CHOOSE x \in S : \A y \in S : x <= y
Max(S) == CHOOSE x \in S : \A y \in S : x >= y

(***************************************************************************)
(* Strings, as String.prototype does them                                  *)
(***************************************************************************)
Char(s, i) == SubSeq(s, i, i)

\* The whitespace of \s and of trim() that the feeds of the model use.
IsSpace(c) == c \in {" ", "\t", "\r"}

RECURSIVE TrimStart(_)
TrimStart(s) ==
  IF s # "" /\ IsSpace(Head(s)) THEN TrimStart(Tail(s)) ELSE s

RECURSIVE TrimEnd(_)
TrimEnd(s) ==
  IF s # "" /\ IsSpace(Char(s, Len(s)))
    THEN TrimEnd(SubSeq(s, 1, Len(s) - 1))
    ELSE s

Trim(s) == TrimEnd(TrimStart(s))

\* s.startsWith("#")
StartsWithHash(s) == s # "" /\ Head(s) = "#"

\* s.replace(/^#+\s*/, "")
RECURSIVE StripHashes(_)
StripHashes(s) ==
  IF StartsWithHash(s) THEN StripHashes(Tail(s)) ELSE s

StripMarker(s) ==
  IF StartsWithHash(s) THEN TrimStart(StripHashes(s)) ELSE s

\* The k-th smallest element of a set of positions.
Kth(S, k) == CHOOSE i \in S : Cardinality({j \in S : j < i}) = k - 1

\* text.split(/\r?\n/): the pieces between consecutive line feeds, each
\* without the carriage return that ends it.
SplitLines(text) ==
  LET n == Len(text)
      nl == {i \in 1..n : Char(text, i) = "\n"}
      cnt == Cardinality(nl)
      sepStart(k) == IF k > cnt THEN n + 1
                     ELSE LET i == Kth(nl, k)
                          IN IF i > 1 /\ Char(text, i - 1) = "\r" THEN i - 1 ELSE i
      sepEnd(k) == IF k = 0 THEN 0 ELSE Kth(nl, k)
  IN [k \in 1..(cnt + 1) |-> SubSeq(text, sepEnd(k - 1) + 1, sepStart(k) - 1)]

\* s.split(/\s+/): the pieces between maximal runs of whitespace; a leading
\* or trailing run leaves an empty string at that end, as in JavaScript.
SplitWs(s) ==
  LET n == Len(s)
      starts == {i \in 1..n : IsSpace(Char(s, i)) /\ (i = 1 \/ ~IsSpace(Char(s, i - 1)))}
      ends == {i \in 1..n : IsSpace(Char(s, i)) /\ (i = n \/ ~IsSpace(Char(s, i + 1)))}
      cnt == Cardinality(starts)
      sepStart(k) == IF k > cnt THEN n + 1 ELSE Kth(starts, k)
      sepEnd(k) == IF k = 0 THEN 0 ELSE Kth(ends, k)
  IN [k \in 1..(cnt + 1) |-> SubSeq(s, sepEnd(k - 1) + 1, sepStart(k) - 1)]

\* array.filter(t => t.length > 0)
NonEmpty(seq) == SelectSeq(seq, LAMBDA t : t # "")

\* array.includes(x)
Includes(seq, x) == \E i \in 1..Len(seq) : seq[i] = x

\* s.toLowerCase(), on the letters station identifiers are made of.
Upper == "ABCDEFGHIJKLMNOPQRSTUVWXYZ"
Lower == "abcdefghijklmnopqrstuvwxyz"

LowerChar(c) ==
  IF \E i \in 1..Len(Upper) : Char(Upper, i) = c
    THEN Char(Lower, CHOOSE i \in 1..Len(Upper) : Char(Upper, i) = c)
    ELSE c

RECURSIVE ToLowerCase(_)
ToLowerCase(s) ==
  IF s = "" THEN "" ELSE LowerChar(Head(s)) \o ToLowerCase(Tail(s))

(***************************************************************************)
(* Numbers                                                                 *)
(***************************************************************************)
DigitChars == "0123456789"

IsDigit(c) == \E i \in 1..10 : Char(DigitChars, i) = c

DigitVal(c) == (CHOOSE i \in 1..10 : Char(DigitChars, i) = c) - 1

AllIn(s, chars) == \A i \in 1..Len(s) : Char(s, i) \in chars

DigitsOnly(s) == \A i \in 1..Len(s) : IsDigit(Char(s, i))

RECURSIVE DigitsValue(_)
DigitsValue(s) ==
  IF s = "" THEN 0
  ELSE 10 * DigitsValue(SubSeq(s, 1, Len(s) - 1)) + DigitVal(Char(s, Len(s)))

RECURSIVE Pow10(_)
Pow10(e) == IF e = 0 THEN 1 ELSE 10 * Pow10(e - 1)

RECURSIVE Normalize(_, _)
Normalize(m, e) ==
  IF e > 0 /\ m % 10 = 0 THEN Normalize(m \div 10, e - 1) ELSE [m |-> m, e |-> e]

Int2Num(i) == [m |-> i, e |-> 0]

NumLt(a, b) == a.m * Pow10(b.e) < b.m * Pow10(a.e)

NumAdd(a, b) == Normalize(a.m * Pow10(b.e) + b.m * Pow10(a.e), a.e + b.e)

NumMul(a, b) == Normalize(a.m * b.m, a.e + b.e)

\* ToIntegerOrInfinity: truncation toward zero.
Trunc(a) ==
  IF a.m >= 0 THEN a.m \div Pow10(a.e) ELSE -((-a.m) \div Pow10(a.e))

\* The integer and fraction parts of a decimal literal, split at its point.
PointsOf(s) == {i \in 1..Len(s) : Char(s, i) = "."}
IntPart(s) == IF PointsOf(s) = {} THEN s ELSE SubSeq(s, 1, Min(PointsOf(s)) - 1)
FracPart(s) ==
  IF PointsOf(s) = {} THEN "" ELSE SubSeq(s, Min(PointsOf(s)) + 1, Len(s))

\* Number(str) for a trimmed string: Null stands for NaN.  Signed decimal
\* literals with an optional fraction are read; every other string of the
\* feeds' alphabet (letters, "/", a second point) is NaN.  Exponents, hex
\* literals and "Infinity" are outside that alphabet.
Number(str) ==
  LET signed == str # "" /\ Head(str) \in {"-", "+"}
      neg == str # "" /\ Head(str) = "-"
      body == IF signed THEN Tail(str) ELSE str
      ip == IntPart(body)
      fp == FracPart(body)
      mag == DigitsValue(ip) * Pow10(Len(fp)) + DigitsValue(fp)
  IN IF str = "" THEN Some(Int2Num(0))
     ELSE IF Cardinality(PointsOf(body)) > 1 \/ ~DigitsOnly(ip) \/ ~DigitsOnly(fp)
             \/ (ip = "" /\ fp = "")
       THEN Null
       ELSE Some(Normalize(IF neg THEN -mag ELSE mag, Len(fp)))

\* /^9+(\.0+)?$/.test(str)
AllNines(str) ==
  /\ IntPart(str) # ""
  /\ AllIn(IntPart(str), {"9"})
  /\ \/ PointsOf(str) = {}
     \/ FracPart(str) # "" /\ AllIn(FracPart(str), {"0"})

\* A parseNum that reads nines only when a fraction of zeros follows them.
parseNumNinesNeedFraction(value) ==
  IF value = Null THEN Null
  ELSE LET str == Trim(value[1])
       IN IF str \in {"", "MM", "NaN", "N/A"} THEN Null
          ELSE IF AllNines(str) /\ PointsOf(str) # {} THEN Null
          ELSE Number(str)

\* A parseNum whose sentinel has at least two nines.
parseNumTwoNines(value) ==
  IF value = Null THEN Null
  ELSE LET str == Trim(value[1])
       IN IF str \in {"", "MM", "NaN", "N/A"} THEN Null
          ELSE IF AllNines(str) /\ Len(IntPart(str)) >= 2 THEN Null
          ELSE Number(str)

\* parseNum (scripps.js 215-224).  value is an option holding a token.
parseNum(value) ==
  IF value = Null THEN Null
  ELSE LET str == Trim(value[1])
       IN IF str \in {"", "MM", "NaN", "N/A"} THEN Null
          ELSE IF AllNines(str) THEN Null
          ELSE Number(str)

(***************************************************************************)
(* Date.UTC and Date.prototype.toISOString                                 *)
(***************************************************************************)
\* Days from 1970-01-01 to the first of month mn (0-based) of year y, in the
\* proleptic Gregorian calendar (MakeDay).
DaysFromCivil(y, mn) ==
  LET m == mn + 1
      yy == IF m <= 2 THEN y - 1 ELSE y
      era == yy \div 400
      yoe == yy - era * 400
      doy == (153 * (IF m > 2 THEN m - 3 ELSE m + 9) + 2) \div 5
      doe == yoe * 365 + yoe \div 4 - yoe \div 100 + doy
  IN era * 146097 + doe - 719468

MsPerDay == 86400000
\* TimeClip: an instant further than 100,000,000 days from the epoch is invalid.
MaxDays == 100000000

\* Date.UTC(year, month, day, hour, minute, second) on numbers: the instant
\* as [days, ms] (days since the epoch, ms within the day), Null when the
\* time value is NaN.  Arguments are truncated to integers, a year of 0..99
\* means 1900 + year, and an out-of-range month, day, hour or minute carries
\* over.
DateUTC(year, month, day, hour, minute, second) ==
  LET y0 == Trunc(year)
      y == IF y0 >= 0 /\ y0 <= 99 THEN 1900 + y0 ELSE y0
      mo == Trunc(month)
      ym == y + mo \div 12
      mn == mo % 12
      t == Trunc(hour) * 3600000 + Trunc(minute) * 60000 + Trunc(second) * 1000
      days == DaysFromCivil(ym, mn) + Trunc(day) - 1 + t \div MsPerDay
  IN IF days > MaxDays \/ days < -MaxDays THEN Null
     ELSE Some([days |-> days, ms |-> t % MsPerDay])

RECURSIVE NatToStr(_)
NatToStr(n) ==
  IF n < 10 THEN Char(DigitChars, n + 1)
  ELSE NatToStr(n \div 10) \o Char(DigitChars, (n % 10) + 1)

RECURSIVE PadStart(_, _)
PadStart(s, width) == IF Len(s) >= width THEN s ELSE PadStart("0" \o s, width)

Pad(n, width) == PadStart(NatToStr(n), width)

\* toISOString of a valid instant: YYYY-MM-DDTHH:mm:ss.sssZ, the year with a
\* sign and six digits outside 0..9999.
ToISOString(inst) ==
  LET z == inst.days + 719468
      era == z \div 146097
      doe == z - era * 146097
      yoe == (doe - doe \div 1460 + doe \div 36524 - doe \div 146096) \div 365
      doy == doe - (365 * yoe + yoe \div 4 - yoe \div 100)
      mp == (5 * doy + 2) \div 153
      d == doy - (153 * mp + 2) \div 5 + 1
      m == IF mp < 10 THEN mp + 3 ELSE mp - 9
      y == yoe + era * 400 + (IF m <= 2 THEN 1 ELSE 0)
      ys == IF y >= 0 /\ y <= 9999 THEN Pad(y, 4)
            ELSE IF y < 0 THEN "-" \o Pad(-y, 6) ELSE "+" \o Pad(y, 6)
      hh == inst.ms \div 3600000
      mi == (inst.ms % 3600000) \div 60000
      ss == (inst.ms % 60000) \div 1000
  IN ys \o "-" \o Pad(m, 2) \o "-" \o Pad(d, 2) \o "T" \o Pad(hh, 2) \o ":"
       \o Pad(mi, 2) \o ":" \o Pad(ss, 2) \o "." \o Pad(inst.ms % 1000, 3) \o "Z"

(***************************************************************************)
(* Parsing the feed (scripps.js 157-213)                                   *)
(***************************************************************************)
\* rawLines.map(l => l.trim()).filter(l => l.length > 0)
RECURSIVE MapTrim(_)
MapTrim(seq) == IF seq = <<>> THEN <<>> ELSE <<Trim(Head(seq))>> \o MapTrim(Tail(seq))

FeedLines(text) == NonEmpty(MapTrim(SplitLines(text)))

\* Whether a comment line's tokens make it a header (scripps.js 173).
IsHeader(tokens) ==
  Includes(tokens, "YY") /\ Includes(tokens, "MM") /\ Includes(tokens, "DD")

\* One pass of the loop of scripps.js 168-202 over the line `line`, from the
\* loop's state st = [headerTokens, dataRows].
ScanLine(st, line) ==
  IF StartsWithHash(line)
    THEN LET tokens == NonEmpty(SplitWs(StripMarker(line)))
         IN IF IsHeader(tokens) THEN [st EXCEPT !.headerTokens = Some(tokens)] ELSE st
    ELSE LET tokens == SplitWs(line)
         IN IF st.headerTokens = Null \/ Len(tokens) < Len(st.headerTokens[1])
              THEN st
              ELSE [st EXCEPT !.dataRows = Append(@, tokens)]

RECURSIVE ScanLines(_, _)
ScanLines(st, lines) ==
  IF lines = <<>> THEN st ELSE ScanLines(ScanLine(st, Head(lines)), Tail(lines))

ScanFeed(text) ==
  ScanLines([headerTokens |-> Null, dataRows |-> <<>>], FeedLines(text))

\* if (!headerTokens || dataRows.length === 0) throw (scripps.js 204)
FeedMalformed(scan) == scan.headerTokens = Null \/ scan.dataRows = <<>>

\* idx = Object.fromEntries(headerTokens.map((name, i) => [name, i])): of a
\* name that occurs twice the last position stays.
IdxOf(headerTokens) ==
  [name \in {headerTokens[i] : i \in 1..Len(headerTokens)} |->
     Max({i \in 1..Len(headerTokens) : headerTokens[i] = name})]

\* idx[name] != null, and "name" in idx
Has(idx, name) == name \in DOMAIN idx

\* latest[i]: undefined outside the row.
At(latest, i) == IF i \in 1..Len(latest) THEN Some(latest[i]) ELSE Null

\* latest[idx[name]], undefined when the header has no such column.
Tok(idx, latest, name) == IF Has(idx, name) THEN At(latest, idx[name]) ELSE Null

(***************************************************************************)
(* Time fields and timestamp (scripps.js 226-247)                          *)
(***************************************************************************)
TimeFields(idx, latest) ==
  [year  |-> parseNum(IF Has(idx, "YYYY") THEN Tok(idx, latest, "YYYY")
                      ELSE Tok(idx, latest, "YY")),
   month |-> parseNum(IF Has(idx, "MM") THEN Tok(idx, latest, "MM") ELSE Null),
   day   |-> parseNum(IF Has(idx, "DD") THEN Tok(idx, latest, "DD") ELSE Null),
   hour  |-> parseNum(IF Has(idx, "hh") THEN Tok(idx, latest, "hh")
                      ELSE IF Has(idx, "HH") THEN Tok(idx, latest, "HH") ELSE Null),
   mins  |-> parseNum(IF Has(idx, "mm") THEN Tok(idx, latest, "mm") ELSE Some("0"))]

\* !x for an option holding a number: null and 0 are falsy.
Falsy(x) == x = Null \/ x[1].m = 0

\* A check of the time fields that lets every row pass.
TimestampMissingNever(tf) == FALSE

\* if (!year || !month || !day || hour == null) throw (scripps.js 234)
TimestampMissing(tf) ==
  Falsy(tf.year) \/ Falsy(tf.month) \/ Falsy(tf.day) \/ tf.hour = Null

\* ToNumber of a value that is a number or null: null counts as 0 in
\* arithmetic, in a comparison and as an argument of Date.UTC.
ToNumber(x) == IF x = Null THEN Int2Num(0) ELSE x[1]

\* A timestamp built with the month as the row gives it.
TimestampMonthAsIs(tf) ==
  LET year == ToNumber(tf.year)
  IN DateUTC(IF NumLt(year, Int2Num(100)) THEN NumAdd(Int2Num(2000), year) ELSE year,
             ToNumber(tf.month),
             ToNumber(tf.day),
             ToNumber(tf.hour),
             IF Falsy(tf.mins) THEN Int2Num(0) ELSE tf.mins[1],
             Int2Num(0))

\* new Date(Date.UTC(...)) of scripps.js 238-247.
Timestamp(tf) ==
  LET year == ToNumber(tf.year)
  IN DateUTC(IF NumLt(year, Int2Num(100)) THEN NumAdd(Int2Num(2000), year) ELSE year,
             NumAdd(ToNumber(tf.month), Int2Num(-1)),
             ToNumber(tf.day),
             ToNumber(tf.hour),
             IF Falsy(tf.mins) THEN Int2Num(0) ELSE tf.mins[1],
             Int2Num(0))

(***************************************************************************)
(* Field extraction and units (scripps.js 249-359)                         *)
(***************************************************************************)
\* A field that is zero when its column is absent.
FieldDefaultsZero(idx, latest, name) ==
  IF Has(idx, name) /\ idx[name] <= Len(latest)
    THEN parseNum(At(latest, idx[name]))
    ELSE Some(Int2Num(0))

\* ("X" in idx && idx["X"] < latest.length) ? parseNum(latest[idx["X"]]) : null
Field(idx, latest, name) ==
  IF Has(idx, name) /\ idx[name] <= Len(latest)
    THEN parseNum(At(latest, idx[name]))
    ELSE Null

\* The loops of scripps.js 259-275, 287-303 and 305-321 over a list of
\* column names, cur being the variable the loop assigns.
RECURSIVE AliasLoop(_, _, _, _)
AliasLoop(idx, latest, fields, cur) ==
  IF fields = <<>> THEN cur
  ELSE IF Has(idx, Head(fields)) /\ idx[Head(fields)] <= Len(latest)
    THEN LET v == parseNum(At(latest, idx[Head(fields)]))
         IN IF v # Null THEN v ELSE AliasLoop(idx, latest, Tail(fields), v)
    ELSE AliasLoop(idx, latest, Tail(fields), cur)

swellDirFields == <<"MWD", "MWWD", "WVDIR", "WAVE_DIR">>
airTempFields == <<"ATMP", "AT", "AIR_TEMP", "TEMP">>
waterTempFields == <<"WTMP", "WT", "WATER_TEMP", "SEA_TEMP">>

\* baro (scripps.js 282-283)
Baro(idx, latest) ==
  parseNum(IF Has(idx, "BARO") THEN Tok(idx, latest, "BARO")
           ELSE IF Has(idx, "PRES") THEN Tok(idx, latest, "PRES") ELSE Null)

mToFt(m) == IF m = Null THEN Null ELSE Some(NumMul(m[1], [m |-> 328084, e |-> 5]))
\* Metres per second turned into miles per hour instead of knots.
msToMph(ms) == IF ms = Null THEN Null ELSE Some(NumMul(ms[1], [m |-> 223694, e |-> 5]))
msToKts(ms) == IF ms = Null THEN Null ELSE Some(NumMul(ms[1], [m |-> 194384, e |-> 5]))
\* A conversion without the null guard: null counts as 0 in the arithmetic.
cToFOfNull(c) ==
  Some(NumAdd(NumMul(NumMul(ToNumber(c), Int2Num(9)), [m |-> 2, e |-> 1]), Int2Num(32)))
\* (c * 9) / 5 + 32: a fifth is two tenths.
cToF(c) ==
  IF c = Null THEN Null
  ELSE Some(NumAdd(NumMul(NumMul(c[1], Int2Num(9)), [m |-> 2, e |-> 1]), Int2Num(32)))

\* A candidate list whose first two entries have changed places.
candidateUrlsSwapped(STATION_ID) ==
  << "https://www.ndbc.noaa.gov/data/5day/" \o STATION_ID \o "_5day.txt",
     "https://www.ndbc.noaa.gov/data/realtime2/" \o STATION_ID \o ".txt",
     "https://www.ndbc.noaa.gov/data/realtime2/" \o ToLowerCase(STATION_ID) \o ".txt",
     "https://www.ndbc.noaa.gov/data/5day/" \o ToLowerCase(STATION_ID) \o "_5day.txt" >>

\* The candidate list of scripps.js 123-128.
NdbcBase == "https://www.ndbc.noaa.gov/data/"

candidateUrls(STATION_ID) ==
  << NdbcBase \o "realtime2/" \o STATION_ID \o ".txt",
     NdbcBase \o "5day/" \o STATION_ID \o "_5day.txt",
     NdbcBase \o "realtime2/" \o ToLowerCase(STATION_ID) \o ".txt",
     NdbcBase \o "5day/" \o ToLowerCase(STATION_ID) \o "_5day.txt" >>

\* What scripps.js 157-359 makes of a fetched text, apart from the url: the
\* throw site it ends at (kind), or the header, the row, the timestamp and
\* the extracted values.
Parse(text) ==
  LET scan == ScanFeed(text)
      headerTokens == scan.headerTokens[1]
      latest == scan.dataRows[1]
      idx == IdxOf(headerTokens)
      tf == TimeFields(idx, latest)
      timestamp == Timestamp(tf)
      waveM == Field(idx, latest, "WVHT")
      wtmpC == AliasLoop(idx, latest, waterTempFields, Null)
  IN IF FeedMalformed(scan) THEN [ok |-> FALSE, kind |-> "MalformedFeed"]
     ELSE IF TimestampMissing(tf)
       THEN [ok |-> FALSE, kind |-> "MissingTimestamp", tf |-> tf]
     ELSE IF timestamp = Null THEN [ok |-> FALSE, kind |-> "InvalidTime", tf |-> tf]
     ELSE [ok |-> TRUE,
           headerTokens |-> headerTokens,
           latest |-> latest,
           tf |-> tf,
           updatedIso |-> ToISOString(timestamp[1]),
           windDirDeg |-> Field(idx, latest, "WD"),
           windKts |-> msToKts(Field(idx, latest, "WSPD")),
           windGustKts |-> msToKts(Field(idx, latest, "GST")),
           waveHeightM |-> waveM,
           waveHeightFt |-> mToFt(waveM),
           dominantPeriodSec |-> Field(idx, latest, "DPD"),
           averagePeriodSec |-> Field(idx, latest, "APD"),
           swellDirDeg |-> AliasLoop(idx, latest, swellDirFields, Null),
           atmpC |-> AliasLoop(idx, latest, airTempFields, Null),
           barometricPressureHpa |-> Baro(idx, latest),
           waterTempC |-> wtmpC,
           waterTempF |-> cToF(wtmpC)]

\* The object json of scripps.js 361-400 (of meta: urlsTried, parseHeader,
\* fetchTimeMs and latestDataRow; the rest of meta repeats these values).
Json(STATION_ID, urls, usedUrl, p, fetchTimeMs) ==
  [stationId |-> STATION_ID,
   name |-> "Scripps Pier, La Jolla, CA",
   sourceUrl |-> usedUrl,
   updatedIso |-> p.updatedIso,
   windDirDeg |-> p.windDirDeg,
   windKts |-> p.windKts,
   windGustKts |-> p.windGustKts,
   waveHeightM |-> p.waveHeightM,
   waveHeightFt |-> p.waveHeightFt,
   dominantPeriodSec |-> p.dominantPeriodSec,
   averagePeriodSec |-> p.averagePeriodSec,
   swellDirDeg |-> p.swellDirDeg,
   barometricPressureHpa |-> p.barometricPressureHpa,
   waterTempC |-> p.waterTempC,
   waterTempF |-> p.waterTempF,
   meta |-> [urlsTried |-> urls,
             parseHeader |-> p.headerTokens,
             fetchTimeMs |-> fetchTimeMs,
             latestDataRow |-> p.latest]]

\* One entry of validateData's warnings: the template literal's text, the
\* value it prints and the unit that follows.
Warning(text, value, unit) == [text |-> text, value |-> value, unit |-> unit]

\* if (v != null) { if (v < lo || v > hi) warnings.push(...) }
RangeCheck(v, lo, hi, text, unit) ==
  IF v # Null /\ (NumLt(v[1], Int2Num(lo)) \/ NumLt(Int2Num(hi), v[1]))
    THEN <<Warning(text, v[1], unit)>>
    ELSE <<>>

\* A validator that sets every field it finds out of range to null.
validateDataNulls(data) ==
  LET Keep(v, lo, hi) == IF RangeCheck(v, lo, hi, "", "") = <<>> THEN v ELSE Null
  IN [data |-> [data EXCEPT !.waveHeightFt = Keep(@, 0, 50),
                            !.dominantPeriodSec = Keep(@, 3, 30),
                            !.swellDirDeg = Keep(@, 0, 360),
                            !.windKts = Keep(@, 0, 100),
                            !.waterTempF = Keep(@, 32, 120)],
      warnings |->
        RangeCheck(data.waveHeightFt, 0, 50, "Unusual wave height: ", "ft")
          \o RangeCheck(data.dominantPeriodSec, 3, 30, "Unusual period: ", "s")
          \o RangeCheck(data.swellDirDeg, 0, 360, "Unusual swell direction: ", "°")
          \o RangeCheck(data.windKts, 0, 100, "Unusual wind speed: ", "kts")
          \o RangeCheck(data.waterTempF, 32, 120, "Unusual water temp: ", "°F")]

\* validateData of scripps.js 52-95, as the record [data, warnings]: data is
\* the object it was passed as the call leaves it (it assigns to none of its
\* fields), warnings the array it returns.
validateData(data) ==
  [data |-> data,
   warnings |->
     RangeCheck(data.waveHeightFt, 0, 50, "Unusual wave height: ", "ft")
       \o RangeCheck(data.dominantPeriodSec, 3, 30, "Unusual period: ", "s")
       \o RangeCheck(data.swellDirDeg, 0, 360, "Unusual swell direction: ", "°")
       \o RangeCheck(data.windKts, 0, 100, "Unusual wind speed: ", "kts")
       \o RangeCheck(data.waterTempF, 32, 120, "Unusual water temp: ", "°F")]

\* The message of the error thrown at a throw site after the fetch.
ErrorMessage(kind, usedUrl) ==
  CASE kind = "MalformedFeed" ->
         "Could not find header/data rows in NDBC file: " \o usedUrl
    [] kind = "MissingTimestamp" ->
         "Missing or invalid timestamp fields in NDBC data for " \o usedUrl
    [] OTHER -> "Invalid time value"

(***************************************************************************)
(* The environment: configurations, feeds, upstream answers                *)
(***************************************************************************)
\* process.env as the module reads it once when it is loaded (scripps.js 7, 10).
Production == [STATION_ID |-> "LJPC1", isDevelopment |-> FALSE]
Development == [STATION_ID |-> "ljpc1", isDevelopment |-> TRUE]
Configs == {Production, Development}

\* The feed of the specification's scenario, with an older second row.
GoodFeed ==
  "#YY MM DD hh mm WD WSPD GST WVHT DPD APD WTMP\n"
    \o "#yr mo dy hr mn degT m/s m/s m sec sec degC\n"
    \o "24 03 15 18 00 270 5.1 6.3 1.20 11 9 999.0\n"
    \o "24 03 15 17 00 260 4.0 5.0 1.10 10 8 15.2\n"
\* The same station an hour later.
NewerFeed ==
  "#YY MM DD hh mm WD WSPD GST WVHT DPD APD WTMP\n"
    \o "#yr mo dy hr mn degT m/s m/s m sec sec degC\n"
    \o "24 03 15 19 00 280 4.6 5.9 1.30 12 8 15.4\n"
    \o "24 03 15 18 00 270 5.1 6.3 1.20 11 9 999.0\n"
\* No comment line names YY, MM and DD.
NoHeaderFeed == "#yr mo dy hr mn m\n24 03 15 18 00 1.5\n"
\* The header is followed by no row as wide as it is.
ShortRowFeed == "#YY MM DD hh mm WVHT\n24 03 15 18\n"
\* Two header lines, the second wider than the only row.
TwoHeaderFeed == "#YY MM DD hh\n24 03 15 18\n#YY MM DD hh mm WVHT\n"
\* Two header lines, the first wider than the only row.
NarrowerHeaderFeed == "#YY MM DD hh mm WVHT\n#YY MM DD hh\n24 03 15 18\n"
\* An observation of the year 2000: the two-digit year is 00.
Year00Feed == "#YY MM DD hh mm WVHT\n00 03 15 18 00 1.5\n"
\* An observation at midnight: the hour is 00.
Hour00Feed == "#YY MM DD hh mm WVHT\n24 03 15 00 00 1.5\n"
\* The month is reported missing.
NoMonthFeed == "#YY MM DD hh mm WVHT\n24 MM 15 19 00 1.5\n"
\* The header has no hour column.
NoHourColumnFeed == "#YY MM DD mm WVHT\n24 03 15 00 1.5\n"
\* Every measurement column holds a zero; there is no gust column.
ZeroFeed ==
  "#YY MM DD hh mm WD WSPD WVHT DPD APD MWD PRES WTMP\n"
    \o "24 03 15 18 00 0 0.0 0 0.0 0 0 0.0 0\n"
\* The first column of swell direction, of pressure and of water temperature
\* holds a sentinel, the second a number.
SentinelAliasFeed ==
  "#YY MM DD hh mm MWD MWWD BARO PRES WTMP WT\n"
    \o "24 03 15 18 00 999 200 9999 1013 999.0 15.2\n"
\* The hour, the swell direction, the pressure and the water temperature are
\* under their alternate column names.
AlternateFeed ==
  "#YY MM DD HH mm MWWD PRES WT\n24 03 15 18 00 200 1013 15.2\n"
\* The year is under its alternate column name.
YearAliasFeed == "#YYYY MM DD hh mm WVHT\n2024 03 15 18 00 1.5\n"
\* Two header lines that name the wave height and the period in opposite
\* order, then a row.
SwappedHeaderFeed ==
  "#YY MM DD hh mm WVHT DPD\n#YY MM DD hh mm DPD WVHT\n24 03 15 18 00 1.5 11\n"
\* A header with a wave-height column, a row, then a header that names the
\* period in the wave height's place.
LaterHeaderFeed ==
  "#YY MM DD hh mm WVHT\n24 03 15 18 00 1.5\n#YY MM DD hh mm DPD\n"
\* The minute is reported missing.
MissingMinuteFeed == "#YY MM DD hh mm WVHT\n24 03 15 18 MM 1.5\n"
\* A four-digit year and an observation at half past the hour.
HalfPastFeed == "#YY MM DD hh mm WVHT\n2024 03 15 18 30 1.5\n"
\* The gust, the average period and the wind direction are far outside what
\* a buoy reports; wind, waves and dominant period are ordinary.
GustFeed ==
  "#YY MM DD hh mm WD WSPD GST WVHT DPD APD\n24 03 15 18 00 720 10 60 1.5 11 2\n"
\* Period and directions at the ends of their ranges, wind and waves at zero,
\* water at the freezing point.
BoundaryFeed ==
  "#YY MM DD hh mm WSPD WVHT DPD APD MWD WTMP\n24 03 15 18 00 0 0 3 30 360 0\n"
\* A single nine under the wave height and "9.0" under the average period;
\* "09" under the dominant period and "99.9" under the water temperature.
NinesFeed ==
  "#YY MM DD hh mm WVHT DPD APD WTMP\n24 03 15 18 00 9 09 9.0 99.9\n"
\* A row before the header, a short row after it, then two full rows.
RowsFeed ==
  "24 03 15 16 00 9.9\n#YY MM DD hh mm WVHT\n24 03 15\n"
    \o "24 03 15 18 00 1.5\n24 03 15 17 00 1.4\n"
\* Wind, wave height, period, swell direction and water temperature all
\* outside the validator's ranges.
OutOfRangeFeed ==
  "#YY MM DD hh mm WSPD WVHT DPD MWD WTMP\n24 03 15 18 00 60 20 2 400 -5\n"
\* An empty body, and a body of white space.
EmptyFeed == ""
BlankFeed == " \n"

\* Tokens a measurement column may hold: sentinels of nines, the missing
\* marker, zeros, and numbers that begin or end like a sentinel.
Tokens ==
  {"99", "999.0", "999", "9", "9.0", "99.00", "MM",
   "9.5", "0", "0.0", "1.20", "99.5", "909", "19", "-5", "90"}

\* Further tokens: the other missing markers, strings that are no number, and
\* numbers written with a leading zero, a bare point or a sign.
OtherTokens ==
  {"NaN", "N/A", "abc", "1.2.3", "09", "99.9", "9.", "9.00", "-9", ".5", "0999", "9.05"}

\* A feed whose only row holds the token tok in the wave-height column.
TokenFeed(tok) == "#YY MM DD hh mm WVHT\n24 03 15 18 00 " \o tok \o "\n"

TokenFeeds == {TokenFeed(tok) : tok \in Tokens \cup OtherTokens}

Feeds ==
  {GoodFeed, NewerFeed, NoHeaderFeed, ShortRowFeed, TwoHeaderFeed,
   NarrowerHeaderFeed, Year00Feed, Hour00Feed, NoMonthFeed, NoHourColumnFeed,
   EmptyFeed, BlankFeed, ZeroFeed, SentinelAliasFeed, AlternateFeed,
   YearAliasFeed, SwappedHeaderFeed, LaterHeaderFeed, MissingMinuteFeed,
   HalfPastFeed, GustFeed, BoundaryFeed, NinesFeed, RowsFeed, OutOfRangeFeed}
    \cup TokenFeeds

\* The feeds by which the upstream replaces a feed: a newer observation, well
\* formed or with its month missing.
Supersedes == {<<GoodFeed, NewerFeed>>, <<GoodFeed, NoMonthFeed>>}

\* A text the upstream serves, held with what Parse makes of it: the handler
\* parses the text when it has read it, and the model works that out once,
\* when the text is put up.
Served(text) == [text |-> text, parsed |-> Parse(text)]

\* A configuration, held likewise with its candidate list.
Loaded(cfg) ==
  [STATION_ID |-> cfg.STATION_ID, isDevelopment |-> cfg.isDevelopment,
   candidateUrls |-> candidateUrls(cfg.STATION_ID)]

\* How the server of a candidate answers a fetch:
\*   ok          a response with resp.ok, whose body then arrives as text
\*   notOk       a response without resp.ok
\*   throws      the fetch rejects
\*   silent      no answer ever comes
\*   bodyThrows  a response with resp.ok, whose body fails to arrive or decode
Behaviours == {"ok", "notOk", "throws", "silent", "bodyThrows"}

NumCandidates == 4

\* The loop stops at the first candidate that answers ok, so the candidates
\* after it are given as ok too: each course of the loop occurs once.
Upstreams ==
  {u \in [1..NumCandidates -> Behaviours] :
     \A i, j \in 1..NumCandidates : (u[i] = "ok" /\ i < j) => u[j] = "ok"}

AllOk == [i \in 1..NumCandidates |-> "ok"]
AllNotOk == [i \in 1..NumCandidates |-> "notOk"]
FirstNotOk == [i \in 1..NumCandidates |-> IF i = 1 THEN "notOk" ELSE "ok"]
FirstSilent == [i \in 1..NumCandidates |-> IF i = 1 THEN "silent" ELSE "ok"]

\* resp.status + " " + resp.statusText of an answer that is not ok.
NotOkStatus == "404 Not Found"
\* e.message of a fetch the transport rejects, and of a body that fails to
\* arrive or to decode.
TransportError == "fetch failed"
BodyError == "terminated"
\* The message fetchWithTimeout throws on abort (scripps.js 45).
TimeoutMessage == "Request timeout after " \o NatToStr(FETCH_TIMEOUT) \o "ms"

\* The clock advances by one timeout, by one TTL or by their difference.
TickSteps == {FETCH_TIMEOUT, CACHE_TTL - FETCH_TIMEOUT, CACHE_TTL}

Runs == 1..MaxRuns

(***************************************************************************)
(* State                                                                   *)
(***************************************************************************)
VARIABLES
  config,      \* STATION_ID and isDevelopment (Loaded)
  upstream,    \* how each candidate's server answers
  load,        \* the number of requests that arrive
  updatesLeft, \* times the upstream will still replace its feed
  feed,        \* the text the upstream serves (Served)
  now,         \* Date.now()
  cache,       \* the cache object: data and timestamp
  cacheBy,     \* the run that assigned cache.data, and cache.timestamp (0: none)
  run,         \* per request: the handler's locals and its response
  endpoint,    \* how the endpoint answers the page: "answers" or "silent"
  onLine,      \* navigator.onLine
  ready,       \* whether the DOMContentLoaded handler has run
  wall,        \* the page's clock, in milliseconds since it was opened
  interval,    \* when the setInterval timer is next due
  dom,         \* error box, header status, loading class, refresh button
  ld,          \* per load: the locals of loadBuoy and fetchWithRetry
  started      \* the number of loads started

page == <<endpoint, onLine, ready, wall, interval, dom, ld, started>>

server == <<config, upstream, load, updatesLeft, feed, now, cache, cacheBy, run>>

vars == <<server, page>>

\* What no step of the handler changes.
env == <<config, upstream, load, page>>

\* A request that has not arrived.  Of a request that has, `after` keeps the
\* requests that were answered before it arrived, `warned` the warnings its
\* validation wrote to the console, `steps` the stages of the handler it
\* has entered, in order, and `body` the text the upstream answered its
\* fetch with, which resp.text() delivers later.
NewRun ==
  [pc |-> "new", method |-> "GET", startTime |-> 0, after |-> {}, i |-> 0,
   errors |-> <<>>,
   timer |-> Null, sent |-> 0, inflight |-> {}, attempts |-> <<>>,
   usedUrl |-> Null, thrown |-> Null, warned |-> Null, res |-> Null,
   source |-> "none", steps |-> <<>>, body |-> Null]

\* The program after it is loaded: an empty cache, no request yet.
InitProgram ==
  /\ now = StartInstant
  /\ cache = [data |-> Null, timestamp |-> Null]
  /\ cacheBy = [data |-> 0, timestamp |-> 0]
  /\ run = [r \in Runs |-> NewRun]

\* One request, every course of the candidate loop.
InitFetch ==
  /\ config \in {Loaded(cfg) : cfg \in Configs}
  /\ upstream \in Upstreams
  /\ load = 1
  /\ updatesLeft = 0
  /\ feed \in {Served(GoodFeed), Served(EmptyFeed)}
  /\ feed.text = EmptyFeed => \E i \in 1..NumCandidates : upstream[i] = "ok"

\* One request, every feed.
InitFeed ==
  /\ config \in {Loaded(cfg) : cfg \in Configs}
  /\ upstream = AllOk
  /\ load = 1
  /\ updatesLeft = 0
  /\ feed \in {Served(text) : text \in Feeds}

\* Requests that share the cache, over an upstream that may publish.
InitShared ==
  /\ config = Loaded(Production)
  /\ upstream \in {AllOk, FirstSilent}
  /\ load = MaxRuns
  /\ updatesLeft = MaxUpdates
  /\ feed \in {Served(GoodFeed), Served(NoMonthFeed)}

\* No page is open.
PageClosed ==
  /\ endpoint = "answers"
  /\ onLine = TRUE
  /\ ready = FALSE
  /\ wall = 0
  /\ interval = Null
  /\ dom = [errorBox |-> Null, headerStatus |-> "", loading |-> FALSE,
            disabled |-> FALSE, spinning |-> FALSE]
  /\ ld = <<>>
  /\ started = 0

Init == InitProgram /\ PageClosed /\ (InitFetch \/ InitFeed \/ InitShared)

(***************************************************************************)
(* The handler (scripps.js 97-431), one action per stretch between awaits  *)
(***************************************************************************)
\* A cache check that never finds the entry fresh.
CacheFreshNever(c, t) == FALSE

\* A cache check that still serves an entry whose age equals the TTL.
CacheFreshInclusive(c, t) ==
  /\ c.data # Null
  /\ c.timestamp # Null
  /\ c.timestamp[1] # 0
  /\ t - c.timestamp[1] <= CACHE_TTL

\* The condition of the cache check (scripps.js 115) at instant t.
CacheFresh(c, t) ==
  /\ c.data # Null
  /\ c.timestamp # Null
  /\ c.timestamp[1] # 0
  /\ t - c.timestamp[1] < CACHE_TTL

\* A cache update that assigns the report and leaves the stamp.
CacheUpdateDataOnly(c, json, t) == [data |-> Some(json), timestamp |-> c.timestamp]

\* cache.data = json; cache.timestamp = Date.now() (scripps.js 412-413)
CacheUpdate(c, json, t) == [data |-> Some(json), timestamp |-> Some(t)]

\* res.status(code).json(body) or .end(), the handler's last act.  source
\* names the place that responds.
Respond(rn, code, body, source) ==
  [rn EXCEPT !.pc = "done", !.res = Some([status |-> code, body |-> body]),
             !.source = source,
             !.steps = Append(@, IF source = "catch" THEN "Failed" ELSE "Respond")]

\* A catch block that sends the error's message in every mode.
CatchAlwaysDetail(rn, err, isDevelopment) ==
  Respond([rn EXCEPT !.thrown = Some(err)], 500,
          Some([error |-> "Failed to fetch Scripps buoy data",
                detail |-> IF err.message # "" THEN Some(err.message) ELSE Null]),
          "catch")

\* A catch block that records the error and sends nothing.
CatchSendsNothing(rn, err, isDevelopment) == [rn EXCEPT !.thrown = Some(err)]

\* The catch block of scripps.js 419-430.
Catch(rn, err, isDevelopment) ==
  Respond([rn EXCEPT !.thrown = Some(err)], 500,
          Some([error |-> "Failed to fetch Scripps buoy data",
                detail |-> IF isDevelopment /\ err.message # ""
                             THEN Some(err.message) ELSE Null]),
          "catch")

\* One iteration of the candidate loop up to its await (scripps.js 134-137,
\* 29-39): the attempt is logged, the timer set, the fetch sent at instant t.
StartAttempt(rn, i, t) ==
  [rn EXCEPT !.pc = "fetching", !.i = i,
             !.steps = IF @ = <<>> THEN <<"Fetch">> ELSE @,
             !.attempts = Append(@, i),
             !.inflight = @ \cup {i},
             !.sent = t,
             !.timer = Some(t + FETCH_TIMEOUT)]

\* errors.join(" | ")
RECURSIVE Join(_)
Join(errors) ==
  IF errors = <<>> THEN ""
  ELSE IF Len(errors) = 1 THEN errors[1]
  ELSE errors[1] \o " | " \o Join(Tail(errors))

\* if (!text) throw ... (scripps.js 153-155)
AllFailed(errors) ==
  [kind |-> "AllFailed",
   message |-> "All candidate NDBC URLs failed: " \o Join(errors)]

\* A loop that goes from a failed candidate straight to the last one.
AfterFailureSkips(rn, cfg, msg, t) ==
  LET url == cfg.candidateUrls[rn.i]
      rec == [rn EXCEPT !.errors = Append(@, url \o " -> " \o msg),
                        !.inflight = @ \ {rn.i}, !.timer = Null]
  IN IF rn.i < NumCandidates
       THEN StartAttempt(rec, NumCandidates, t)
       ELSE Catch(rec, AllFailed(rec.errors), cfg.isDevelopment)

\* Candidate rn.i has failed with msg: the error is recorded and the loop goes
\* to the next candidate, or past the last to the throw of scripps.js 153-155.
AfterFailure(rn, cfg, msg, t) ==
  LET url == cfg.candidateUrls[rn.i]
      rec == [rn EXCEPT !.errors = Append(@, url \o " -> " \o msg),
                        !.inflight = @ \ {rn.i}, !.timer = Null]
  IN IF rn.i < NumCandidates
       THEN StartAttempt(rec, rn.i + 1, t)
       ELSE Catch(rec, AllFailed(rec.errors), cfg.isDevelopment)

\* The requests answered so far.
Answered == {q \in Runs : run[q].pc = "done"}

\* const startTime = Date.now() (scripps.js 98) of a request arriving at t.
Start(rn, t, answered) == [rn EXCEPT !.startTime = t, !.after = answered]

\* Request r is the next to arrive.
Arrives(r) ==
  /\ r <= load
  /\ run[r].pc = "new"
  /\ \A q \in Runs : q < r => run[q].pc # "new"

\* An OPTIONS request handled after the cache check: it is sent the entry
\* when there is a fresh one.
HandleOptionsAfterCheck(r) ==
  /\ Arrives(r)
  /\ run' = [run EXCEPT ![r] =
               Respond([Start(@, now, Answered) EXCEPT !.method = "OPTIONS"],
                       200, IF CacheFresh(cache, now) THEN cache.data ELSE Null,
                       "options")]
  /\ UNCHANGED <<env, updatesLeft, feed, now, cache, cacheBy>>

\* An OPTIONS request (scripps.js 110-112).
HandleOptions(r) ==
  /\ Arrives(r)
  /\ run' = [run EXCEPT ![r] =
               Respond([Start(@, now, Answered) EXCEPT !.method = "OPTIONS"],
                       200, Null, "options")]
  /\ UNCHANGED <<env, updatesLeft, feed, now, cache, cacheBy>>

\* A cache hit that restarts the life of the entry it serves.
CacheHitRefreshes(r) ==
  /\ Arrives(r)
  /\ CacheFresh(cache, now)
  /\ run' = [run EXCEPT ![r] =
               Respond(Start(@, now, Answered), 200, cache.data, "cache")]
  /\ cache' = [cache EXCEPT !.timestamp = Some(now)]
  /\ UNCHANGED <<env, updatesLeft, feed, now, cacheBy>>

\* A request the cache answers (scripps.js 114-118).  The branch assigns
\* neither cachedData nor cacheTimestamp.
CacheHit(r) ==
  /\ Arrives(r)
  /\ CacheFresh(cache, now)
  /\ run' = [run EXCEPT ![r] =
               Respond(Start(@, now, Answered), 200, cache.data, "cache")]
  /\ UNCHANGED <<env, updatesLeft, feed, now, cache, cacheBy>>

\* A request the cache does not answer: the run begins with the first
\* candidate (scripps.js 120-137).
CacheMiss(r) ==
  /\ Arrives(r)
  /\ ~CacheFresh(cache, now)
  /\ run' = [run EXCEPT ![r] = StartAttempt(Start(@, now, Answered), 1, now)]
  /\ UNCHANGED <<env, updatesLeft, feed, now, cache, cacheBy>>

\* The fetch resolves with an ok response: the timer is cleared and the run
\* awaits the body (scripps.js 40-41, 138, 142).  The response carries the
\* feed as the upstream holds it now.
FetchOk(r) ==
  /\ run[r].pc = "fetching"
  /\ upstream[run[r].i] \in {"ok", "bodyThrows"}
  /\ run' = [run EXCEPT ![r] = [@ EXCEPT !.pc = "reading", !.timer = Null,
                                         !.body = Some(feed)]]
  /\ UNCHANGED <<env, updatesLeft, feed, now, cache, cacheBy>>

\* The fetch resolves with a response that is not ok (scripps.js 138-141).
FetchNotOk(r) ==
  /\ run[r].pc = "fetching"
  /\ upstream[run[r].i] = "notOk"
  /\ run' = [run EXCEPT ![r] = AfterFailure(@, config, NotOkStatus, now)]
  /\ UNCHANGED <<env, updatesLeft, feed, now, cache, cacheBy>>

\* The fetch rejects (scripps.js 42-47, 146-150).
FetchThrows(r) ==
  /\ run[r].pc = "fetching"
  /\ upstream[run[r].i] = "throws"
  /\ run' = [run EXCEPT ![r] = AfterFailure(@, config, TransportError, now)]
  /\ UNCHANGED <<env, updatesLeft, feed, now, cache, cacheBy>>

\* The timer fires before the fetch has resolved: the fetch is aborted
\* (scripps.js 31, 42-46, 146-150).  A server that answers does so before
\* the timer is due.
FetchTimeout(r) ==
  /\ run[r].pc = "fetching"
  /\ upstream[run[r].i] = "silent"
  /\ run[r].timer # Null
  /\ now >= run[r].timer[1]
  /\ run' = [run EXCEPT ![r] = AfterFailure(@, config, TimeoutMessage, now)]
  /\ UNCHANGED <<env, updatesLeft, feed, now, cache, cacheBy>>

\* resp.text() rejects (scripps.js 142, 146-150).
BodyThrows(r) ==
  /\ run[r].pc = "reading"
  /\ upstream[run[r].i] = "bodyThrows"
  /\ run' = [run EXCEPT ![r] = AfterFailure(@, config, BodyError, now)]
  /\ UNCHANGED <<env, updatesLeft, feed, now, cache, cacheBy>>

\* if (warnings.length > 0 && isDevelopment) console.warn(...) (scripps.js
\* 90-92).
Warn(rn, warnings, isDevelopment) ==
  IF warnings # <<>> /\ isDevelopment THEN [rn EXCEPT !.warned = Some(warnings)]
  ELSE rn

\* A handler whose failing run puts the body of its error response in the
\* cache.
AfterTextStoresFailure(rn, cfg, served, t) ==
  LET url == cfg.candidateUrls[rn.i]
      got == [rn EXCEPT !.usedUrl = Some(url), !.inflight = @ \ {rn.i}]
      p == served.parsed
      built == Json(cfg.STATION_ID, cfg.candidateUrls, url, p, t - rn.startTime)
      checked == validateData(built)
      json == checked.data
      err == IF served.text = "" THEN AllFailed(got.errors)
             ELSE [kind |-> p.kind, message |-> ErrorMessage(p.kind, url)]
      caught == Catch(got, err, cfg.isDevelopment)
  IN IF served.text = "" \/ ~p.ok
       THEN [run |-> caught, stored |-> caught.res[1].body]
       ELSE [run |-> Respond(Warn(got, checked.warnings, cfg.isDevelopment),
                             200, Some(json), "fresh"),
             stored |-> Some(json)]

\* The stages the handler enters after the fetch, in the order of its code:
\* the parse loop (scripps.js 157-213), the extraction of the timestamp and
\* the fields (215-321), the unit helpers (347-359), validateData (403) and
\* the cache update (412-413).
Entered(rn, stages) == [rn EXCEPT !.steps = @ \o stages]

\* A handler that stores and sends the report it built without validating
\* it.
AfterTextSkipsValidation(rn, cfg, served, t) ==
  LET url == cfg.candidateUrls[rn.i]
      got == [rn EXCEPT !.usedUrl = Some(url), !.inflight = @ \ {rn.i}]
      p == served.parsed
      json == Json(cfg.STATION_ID, cfg.candidateUrls, url, p, t - rn.startTime)
  IN IF served.text = ""
       THEN [run |-> Catch(got, AllFailed(got.errors), cfg.isDevelopment),
             stored |-> Null]
     ELSE IF ~p.ok
       THEN [run |-> Catch(Entered(got, <<"Parse">>),
                           [kind |-> p.kind, message |-> ErrorMessage(p.kind, url)],
                           cfg.isDevelopment),
             stored |-> Null]
     ELSE [run |-> Respond(Entered(got, <<"Parse", "Extract", "Normalize", "Store">>),
                           200, Some(json), "fresh"),
           stored |-> Some(json)]

\* The run from the arrival of the text to its response (scripps.js 142-430),
\* as the record [run, stored]: stored holds the json when the cache is
\* updated.  The array validateData returns is dropped (scripps.js 403).
AfterText(rn, cfg, served, t) ==
  LET url == cfg.candidateUrls[rn.i]
      got == [rn EXCEPT !.usedUrl = Some(url), !.inflight = @ \ {rn.i}]
      p == served.parsed
      built == Json(cfg.STATION_ID, cfg.candidateUrls, url, p, t - rn.startTime)
      checked == validateData(built)
      json == checked.data
  IN IF served.text = ""
       THEN [run |-> Catch(got, AllFailed(got.errors), cfg.isDevelopment),
             stored |-> Null]
     ELSE IF ~p.ok
       THEN [run |-> Catch(Entered(got, IF p.kind = "MalformedFeed" THEN <<"Parse">>
                                        ELSE <<"Parse", "Extract">>),
                           [kind |-> p.kind, message |-> ErrorMessage(p.kind, url)],
                           cfg.isDevelopment),
             stored |-> Null]
     ELSE [run |-> Respond(Warn(Entered(got, <<"Parse", "Extract", "Normalize",
                                              "Validate", "Store">>),
                                checked.warnings, cfg.isDevelopment),
                           200, Some(json), "fresh"),
           stored |-> Some(json)]

\* resp.text() resolves with the upstream's text; the rest of the handler
\* runs without another await.
BodyText(r) ==
  /\ run[r].pc = "reading"
  /\ upstream[run[r].i] = "ok"
  /\ LET after == AfterText(run[r], config, run[r].body[1], now)
     IN /\ run' = [run EXCEPT ![r] = after.run]
        /\ IF after.stored # Null
             THEN /\ cache' = CacheUpdate(cache, after.stored[1], now)
                  /\ cacheBy' = [data |-> r, timestamp |-> r]
             ELSE UNCHANGED <<cache, cacheBy>>
  /\ UNCHANGED <<env, updatesLeft, feed, now>>

(***************************************************************************)
(* The environment's steps                                                 *)
(***************************************************************************)
\* Time passes while a request that has arrived is unanswered or another is
\* still to arrive (nothing reads the clock otherwise).  A timer that is set
\* fires when it is due: the clock does not pass its deadline while the fetch
\* it guards is pending.  A server that answers does so within the clock's
\* grain, so the clock steps by a timeout only to the deadline of a fetch that
\* gets no answer; it steps by a TTL when no timer is set.  Within the life
\* of a cache entry it also steps from the entry's stamp to one timeout short
\* of the entry's end, and from there to the end.
Tick(d) ==
  /\ run[1].pc # "new"
  /\ \E r \in Runs : r <= load /\ run[r].pc # "done"
  /\ d = FETCH_TIMEOUT =>
       \/ \E r \in Runs : run[r].timer # Null /\ upstream[run[r].i] = "silent"
       \/ /\ cache.timestamp # Null
          /\ now - cache.timestamp[1] = CACHE_TTL - FETCH_TIMEOUT
  /\ d = CACHE_TTL - FETCH_TIMEOUT =>
       /\ cache.timestamp # Null
       /\ now = cache.timestamp[1]
       /\ \A r \in Runs : run[r].timer = Null
  /\ now + d <= StartInstant + MaxElapsed
  /\ \A r \in Runs : run[r].timer # Null => now + d <= run[r].timer[1]
  /\ now' = now + d
  /\ UNCHANGED <<env, updatesLeft, feed, cache, cacheBy, run>>

\* The upstream replaces its feed by one with a newer observation.
Publish(f) ==
  /\ updatesLeft > 0
  /\ <<feed.text, f>> \in Supersedes
  /\ feed' = Served(f)
  /\ updatesLeft' = updatesLeft - 1
  /\ UNCHANGED <<env, now, cache, cacheBy, run>>

Next ==
  \/ \E r \in Runs : HandleOptions(r)
  \/ \E r \in Runs : CacheHit(r)
  \/ \E r \in Runs : CacheMiss(r)
  \/ \E r \in Runs : FetchOk(r)
  \/ \E r \in Runs : FetchNotOk(r)
  \/ \E r \in Runs : FetchThrows(r)
  \/ \E r \in Runs : FetchTimeout(r)
  \/ \E r \in Runs : BodyThrows(r)
  \/ \E r \in Runs : BodyText(r)
  \/ \E d \in TickSteps : Tick(d)
  \/ \E f \in Feeds : Publish(f)

Spec == Init /\ [][Next]_vars

\* A step of the handler on request r.
HandlerStep(r) ==
  \/ HandleOptions(r) \/ CacheHit(r) \/ CacheMiss(r)
  \/ FetchOk(r) \/ FetchNotOk(r) \/ FetchThrows(r) \/ FetchTimeout(r)
  \/ BodyThrows(r) \/ BodyText(r)

\* While some continuation of some request is ready the event loop runs one,
\* a server that answers does answer, a body that has begun arrives or
\* fails, and the clock runs on to a timer that is set.
Fairness ==
  /\ WF_vars(\E r \in Runs : HandlerStep(r))
  /\ WF_vars(\E d \in TickSteps : Tick(d))

\* Two requests that share the cache, over an upstream whose first candidate
\* stays silent.
InitPair ==
  /\ config = Loaded(Production)
  /\ upstream = FirstSilent
  /\ load = 2
  /\ updatesLeft = MaxUpdates
  /\ feed \in {Served(GoodFeed), Served(NoMonthFeed)}

\* The handler under fair scheduling: every single request of Spec, MaxRuns
\* requests over an upstream that answers, and two over one whose first
\* candidate stays silent.
FairInit ==
  /\ InitProgram
  /\ PageClosed
  /\ InitFetch \/ InitFeed \/ (InitShared /\ upstream = AllOk) \/ InitPair

FairSpec == FairInit /\ [][Next]_vars /\ Fairness

(***************************************************************************)
(* The page (app.js)                                                       *)
(***************************************************************************)
REFRESH_INTERVAL == 10 * 60 * 1000
MAX_RETRIES == 3
INITIAL_RETRY_DELAY == 1000
\* setTimeout(() => controller.abort(), 15000) (app.js 73)
ABORT_AFTER == 15000

OfflineMessage == "You are currently offline. Please check your internet connection."
LoadFailedMessage ==
  "Could not load Scripps Pier buoy data from NOAA. Check later or refresh."

Loads == 1..MaxLoads

\* new Date() of the page at the instant it is opened: 2024-03-15T19:00:00Z.
PageOpened == [days |-> 19797, ms |-> 68400000]

\* The instant ms milliseconds after inst (before it when ms is negative).
AddMs(inst, ms) ==
  [days |-> inst.days + (inst.ms + ms) \div MsPerDay, ms |-> (inst.ms + ms) % MsPerDay]

\* new Date() when the page's clock reads t.
DateNow(t) == AddMs(PageOpened, t)

IsDigits(s) == \A k \in 1..Len(s) : \E d \in 1..10 : Char(s, k) = Char(DigitChars, d)

RECURSIVE StrToNat(_)
StrToNat(s) ==
  IF s = "" THEN 0
  ELSE 10 * StrToNat(SubSeq(s, 1, Len(s) - 1))
         + (CHOOSE d \in 0..9 : Char(DigitChars, d + 1) = Char(s, Len(s)))

\* new Date(iso) on a string: the instant of YYYY-MM-DDTHH:mm:ss.sssZ, Null
\* (an invalid date) for a string of another form.
DateParse(iso) ==
  IF /\ Len(iso) = 24
     /\ Char(iso, 5) = "-" /\ Char(iso, 8) = "-" /\ Char(iso, 11) = "T"
     /\ Char(iso, 14) = ":" /\ Char(iso, 17) = ":" /\ Char(iso, 20) = "."
     /\ Char(iso, 24) = "Z"
     /\ IsDigits(SubSeq(iso, 1, 4)) /\ IsDigits(SubSeq(iso, 6, 7))
     /\ IsDigits(SubSeq(iso, 9, 10)) /\ IsDigits(SubSeq(iso, 12, 13))
     /\ IsDigits(SubSeq(iso, 15, 16)) /\ IsDigits(SubSeq(iso, 18, 19))
     /\ IsDigits(SubSeq(iso, 21, 23))
     /\ StrToNat(SubSeq(iso, 6, 7)) \in 1..12
     /\ StrToNat(SubSeq(iso, 9, 10)) \in 1..31
     /\ StrToNat(SubSeq(iso, 12, 13)) \in 0..24
     /\ StrToNat(SubSeq(iso, 15, 16)) \in 0..59
     /\ StrToNat(SubSeq(iso, 18, 19)) \in 0..59
    THEN Some(AddMs([days |-> DaysFromCivil(StrToNat(SubSeq(iso, 1, 4)),
                                            StrToNat(SubSeq(iso, 6, 7)) - 1)
                               + StrToNat(SubSeq(iso, 9, 10)) - 1,
                     ms |-> 0],
                    StrToNat(SubSeq(iso, 12, 13)) * 3600000
                      + StrToNat(SubSeq(iso, 15, 16)) * 60000
                      + StrToNat(SubSeq(iso, 18, 19)) * 1000
                      + StrToNat(SubSeq(iso, 21, 23))))
    ELSE Null

\* a - b > ms for instants a and b and 0 <= ms < MsPerDay.
LaterByMoreThan(a, b, ms) ==
  LET dd == a.days - b.days
  IN \/ dd > 1
     \/ dd \in {0, 1} /\ dd * MsPerDay + a.ms - b.ms > ms

\* A check that also calls an age of exactly one hour stale.
isDataStaleFromOneHour(updatedIso, today) ==
  IF updatedIso = Null \/ updatedIso = Some("") THEN TRUE
  ELSE LET dataTime == DateParse(updatedIso[1])
       IN IF dataTime = Null THEN FALSE
          ELSE LaterByMoreThan(today, dataTime[1], 3600000 - 1)

\* isDataStale of app.js 97-103, today being its new Date(): (now - dataTime)
\* / 3600000 > 1, which is false when dataTime is an invalid date.
isDataStale(updatedIso, today) ==
  IF updatedIso = Null \/ updatedIso = Some("") THEN TRUE
  ELSE LET dataTime == DateParse(updatedIso[1])
       IN IF dataTime = Null THEN FALSE
          ELSE LaterByMoreThan(today, dataTime[1], 3600000)

\* The bodies an ok response may carry: a report stamped one hour before the
\* page was opened, a millisecond earlier than that, or fifty minutes before
\* it; a report whose updatedIso is missing or is no date; and an object with
\* an error member.
Payloads ==
  {[updatedIso |-> u, error |-> Null] :
     u \in {Some("2024-03-15T18:00:00.000Z"), Some("2024-03-15T17:59:59.999Z"),
            Some("2024-03-15T18:10:00.000Z"), Null, Some("soon")}}
    \cup {[updatedIso |-> Null, error |-> Some("Failed to fetch Scripps buoy data")]}

\* The ways an attempt fails inside the try of fetchWithRetry: fetch or
\* resp.json() rejects, the response is not ok (app.js 78-80), or, at an
\* endpoint that stays silent, the abort timer fires.
AttemptErrors == {"TypeError: Failed to fetch", "HTTP 500: Internal Server Error",
                  "AbortError"}

\* A load that has not been started.  attempts counts the calls of fetch,
\* waits holds the backoff delays slept.
NoLoad ==
  [pc |-> "unused", showLoading |-> FALSE, origin |-> "none", i |-> 0,
   timer |-> Null, wake |-> Null, attempts |-> 0, waits |-> <<>>,
   data |-> Null, stale |-> Null, error |-> Null, outcome |-> "none"]

\* The page before its script has run.
NoDom ==
  [errorBox |-> Null, headerStatus |-> "", loading |-> FALSE,
   disabled |-> FALSE, spinning |-> FALSE]

setError(d, msg) == [d EXCEPT !.errorBox = Some(msg)]
clearError(d) == [d EXCEPT !.errorBox = Null]
setLoading(d, isLoading) == [d EXCEPT !.loading = isLoading]

\* A check that finds the browser online whatever navigator.onLine says.
checkOnlineStatusAlwaysOk(d, online) == [ok |-> TRUE, dom |-> d]

\* checkOnlineStatus of app.js 232-240 as [ok, dom].
checkOnlineStatus(d, online) ==
  IF ~online
    THEN [ok |-> FALSE, dom |-> [setError(d, OfflineMessage) EXCEPT !.headerStatus = "Offline"]]
    ELSE [ok |-> TRUE, dom |-> d]

RECURSIVE Pow2(_)
Pow2(n) == IF n = 0 THEN 1 ELSE 2 * Pow2(n - 1)

\* delay * Math.pow(2, i) (app.js 89)
BackoffDelay(delay, i) == delay * Pow2(i)

\* loadBuoy up to its await (app.js 106-113).
BeginLoad(d, showLoading) ==
  IF showLoading
    THEN [setLoading(clearError(d), TRUE) EXCEPT !.headerStatus = "Loading..."]
    ELSE d

\* One pass of the loop of fetchWithRetry up to its await of fetch (app.js
\* 70-75): the abort timer is set and the request sent.
Attempt(rec, i, t) ==
  [rec EXCEPT !.pc = "fetching", !.i = i, !.wake = Null,
              !.timer = Some(t + ABORT_AFTER),
              !.attempts = @ + 1]

\* .finally of the click handler (app.js 223-226).
Finally(d, origin) ==
  IF origin = "click" THEN [d EXCEPT !.disabled = FALSE, !.spinning = FALSE] ELSE d

\* A failed load whose settling runs no callback of the click handler, as
\* with .then in the place of .finally.
LoadFailsLeavesButton(l, err) ==
  /\ ld' = [ld EXCEPT ![l] = [@ EXCEPT !.pc = "done", !.timer = Null,
                                       !.error = Some(err), !.outcome = "threw"]]
  /\ dom' = setLoading([setError(dom, LoadFailedMessage)
                          EXCEPT !.headerStatus = "Error"], FALSE)

\* The catch of loadBuoy (app.js 204-213) and the settling of its promise.
LoadFails(l, err) ==
  /\ ld' = [ld EXCEPT ![l] = [@ EXCEPT !.pc = "done", !.timer = Null,
                                       !.error = Some(err), !.outcome = "threw"]]
  /\ dom' = Finally(setLoading([setError(dom, LoadFailedMessage)
                                  EXCEPT !.headerStatus = "Error"], FALSE),
                    ld[l].origin)

\* loadBuoy(showLoading) called by origin: load number started + 1 begins.
StartLoad(d, showLoading, origin) ==
  /\ started < MaxLoads
  /\ started' = started + 1
  /\ dom' = BeginLoad(d, showLoading)
  /\ ld' = [ld EXCEPT ![started + 1] =
              Attempt([NoLoad EXCEPT !.showLoading = showLoading, !.origin = origin],
                      0, wall)]

\* The DOMContentLoaded handler (app.js 243-267).
DOMContentLoaded ==
  /\ ~ready
  /\ ready' = TRUE
  /\ interval' = Some(wall + REFRESH_INTERVAL)
  /\ IF checkOnlineStatus(dom, onLine).ok
       THEN StartLoad(dom, TRUE, "initial")
       ELSE /\ dom' = checkOnlineStatus(dom, onLine).dom
            /\ UNCHANGED <<ld, started>>
  /\ UNCHANGED <<server, endpoint, onLine, wall>>

\* The browser loses its connection; the offline listener runs if it is set
\* (app.js 252-254).
GoOffline ==
  /\ onLine
  /\ onLine' = FALSE
  /\ dom' = IF ready THEN checkOnlineStatus(dom, FALSE).dom ELSE dom
  /\ UNCHANGED <<server, endpoint, ready, wall, interval, ld, started>>

\* The browser regains its connection; the online listener runs if it is set
\* (app.js 247-250).
GoOnline ==
  /\ ~onLine
  /\ onLine' = TRUE
  /\ IF ready THEN StartLoad(clearError(dom), TRUE, "online")
     ELSE UNCHANGED <<dom, ld, started>>
  /\ UNCHANGED <<server, endpoint, ready, wall, interval>>

\* The callback of setInterval (app.js 262-266).
RefreshTick ==
  /\ ready
  /\ interval = Some(wall)
  /\ interval' = Some(wall + REFRESH_INTERVAL)
  /\ IF checkOnlineStatus(dom, onLine).ok
       THEN StartLoad(dom, FALSE, "interval")
       ELSE /\ dom' = checkOnlineStatus(dom, onLine).dom
            /\ UNCHANGED <<ld, started>>
  /\ UNCHANGED <<server, endpoint, onLine, ready, wall>>

\* A click on the refresh button (app.js 220-227); a disabled button takes
\* no click.
Click ==
  /\ ready
  /\ ~dom.disabled
  /\ StartLoad([dom EXCEPT !.disabled = TRUE, !.spinning = TRUE], TRUE, "click")
  /\ UNCHANGED <<server, endpoint, onLine, ready, wall, interval>>

\* window.refreshSurfData() (app.js 270)
RefreshSurfData ==
  /\ StartLoad(dom, TRUE, "manual")
  /\ UNCHANGED <<server, endpoint, onLine, ready, wall, interval>>

\* A loop that goes round once more before it gives up.
AttemptFailsOnceMore(l, err) ==
  /\ ld[l].pc = "fetching"
  /\ IF endpoint = "silent"
       THEN err = "AbortError" /\ ld[l].timer = Some(wall)
       ELSE err # "AbortError"
  /\ IF ld[l].i = MAX_RETRIES
       THEN LoadFails(l, err)
       ELSE /\ ld' = [ld EXCEPT ![l] =
                        [@ EXCEPT !.pc = "backoff", !.timer = Null,
                                  !.wake = Some(wall + BackoffDelay(INITIAL_RETRY_DELAY, ld[l].i)),
                                  !.waits = Append(@, BackoffDelay(INITIAL_RETRY_DELAY, ld[l].i))]]
            /\ UNCHANGED dom
  /\ UNCHANGED <<server, endpoint, onLine, ready, wall, interval, started>>

\* The attempt of load l fails with err (app.js 83-92): the last attempt
\* throws, which loadBuoy catches; an earlier one sleeps its backoff.
AttemptFails(l, err) ==
  /\ ld[l].pc = "fetching"
  /\ IF endpoint = "silent"
       THEN err = "AbortError" /\ ld[l].timer = Some(wall)
       ELSE err # "AbortError"
  /\ IF ld[l].i = MAX_RETRIES - 1
       THEN LoadFails(l, err)
       ELSE /\ ld' = [ld EXCEPT ![l] =
                        [@ EXCEPT !.pc = "backoff", !.timer = Null,
                                  !.wake = Some(wall + BackoffDelay(INITIAL_RETRY_DELAY, ld[l].i)),
                                  !.waits = Append(@, BackoffDelay(INITIAL_RETRY_DELAY, ld[l].i))]]
            /\ UNCHANGED dom
  /\ UNCHANGED <<server, endpoint, onLine, ready, wall, interval, started>>

\* The backoff of load l is over: the loop goes round (app.js 91, 70).
BackoffEnds(l) ==
  /\ ld[l].pc = "backoff"
  /\ ld[l].wake = Some(wall)
  /\ ld' = [ld EXCEPT ![l] = Attempt(@, @.i + 1, wall)]
  /\ UNCHANGED <<server, endpoint, onLine, ready, wall, interval, dom, started>>

\* The attempt of load l gets an ok response whose body parses to data
\* (app.js 76-82); loadBuoy goes on with it (app.js 118-202).  Of what it
\* shows, the header status is kept; the measurement texts are not.
AnswerOk(l, data) ==
  /\ ld[l].pc = "fetching"
  /\ endpoint = "answers"
  /\ IF data.error # Null /\ data.error # Some("")
       THEN /\ ld' = [ld EXCEPT ![l] = [@ EXCEPT !.pc = "done", !.timer = Null,
                                                 !.data = Some(data),
                                                 !.error = data.error,
                                                 !.outcome = "threw"]]
            /\ dom' = Finally(setLoading([setError(dom, LoadFailedMessage)
                                            EXCEPT !.headerStatus = "Error"], FALSE),
                              ld[l].origin)
       ELSE LET stale == isDataStale(data.updatedIso, DateNow(wall))
            IN /\ ld' = [ld EXCEPT ![l] = [@ EXCEPT !.pc = "done", !.timer = Null,
                                                    !.data = Some(data),
                                                    !.stale = Some(stale),
                                                    !.outcome = "ok"]]
               /\ dom' = Finally(setLoading([dom EXCEPT !.headerStatus =
                                               IF stale THEN "Buoy conditions (stale)"
                                               ELSE "Buoy conditions"], FALSE),
                                 ld[l].origin)
  /\ UNCHANGED <<server, endpoint, onLine, ready, wall, interval, started>>

\* The timers that are set: abort timers, backoff sleeps and the interval.
\* An endpoint that answers does so within the clock's grain, so the clock
\* runs on only when no attempt awaits it.
Deadlines ==
  {ld[l].timer[1] : l \in {k \in Loads : ld[k].timer # Null}}
    \cup {ld[l].wake[1] : l \in {k \in Loads : ld[k].wake # Null}}
    \cup (IF interval = Null THEN {} ELSE {interval[1]})

\* The page's clock runs on to the next timer that is due.
Wait ==
  /\ Deadlines # {}
  /\ endpoint = "answers" => \A l \in Loads : ld[l].pc # "fetching"
  /\ Min(Deadlines) > wall
  /\ Min(Deadlines) <= MaxWall
  /\ wall' = Min(Deadlines)
  /\ UNCHANGED <<server, endpoint, onLine, ready, interval, dom, ld, started>>

NextPage ==
  \/ DOMContentLoaded
  \/ GoOffline
  \/ GoOnline
  \/ RefreshTick
  \/ Click
  \/ RefreshSurfData
  \/ \E l \in Loads : \E err \in AttemptErrors : AttemptFails(l, err)
  \/ \E l \in Loads : BackoffEnds(l)
  \/ \E l \in Loads : \E data \in Payloads : AnswerOk(l, data)
  \/ Wait

\* The page alone, over an endpoint that may answer an attempt in any way.
InitPage ==
  /\ InitProgram
  /\ config = Loaded(Production)
  /\ upstream = AllOk
  /\ load = 0
  /\ updatesLeft = 0
  /\ feed = Served(GoodFeed)
  /\ endpoint \in {"answers", "silent"}
  /\ onLine \in BOOLEAN
  /\ ready = FALSE
  /\ wall = 0
  /\ interval = Null
  /\ dom = NoDom
  /\ ld = [l \in Loads |-> NoLoad]
  /\ started = 0

SpecPage == InitPage /\ [][NextPage]_vars

(***************************************************************************)
(* Properties                                                              *)
(***************************************************************************)
\* The step in which request r arrives as a GET: its cache check.
Checks(r) == Arrives(r) /\ run'[r].pc # "new" /\ run'[r].method = "GET"

\* The instant at which run q, answered with a fresh report, stored it.
StoredAt(q) == run[q].startTime + run[q].res[1].body[1].meta.fetchTimeMs

\* C1, as stated: of two GET requests that arrive within the TTL of each
\* other while the upstream has not replaced its feed, the second gets the
\* response of the first and makes no fetch attempt.
C1_AnyTwoRequestsAgree ==
  \A q, r \in Runs :
    (/\ q < r
     /\ run[q].pc = "done" /\ run[r].pc = "done"
     /\ run[q].method = "GET" /\ run[r].method = "GET"
     /\ run[r].startTime - run[q].startTime < CACHE_TTL
     /\ updatesLeft = MaxUpdates)
    => /\ run[r].res = run[q].res
       /\ run[r].attempts = <<>>

\* C1, amended: a GET request that arrives after run q has stored its report,
\* less than the TTL after that store and with no store since, is answered in
\* that step with exactly the response of q and makes no fetch attempt.
C1_RequestAfterStoreAgrees ==
  [][\A q, r \in Runs :
       (/\ Checks(r)
        /\ run[q].source = "fresh"
        /\ cacheBy.data = q
        /\ now - StoredAt(q) < CACHE_TTL)
       => /\ run'[r].pc = "done"
          /\ run'[r].res = run[q].res
          /\ run'[r].attempts = <<>>]_vars

\* A request that arrived ten seconds after another, once that one had been
\* answered with a fresh report, and got the same response from the cache.
C1_Witness ==
  \E q, r \in Runs :
    /\ q \in run[r].after
    /\ run[q].source = "fresh"
    /\ run[r].source = "cache"
    /\ run[r].startTime = run[q].startTime + FETCH_TIMEOUT
    /\ run[r].res = run[q].res
    /\ run[r].attempts = <<>>

\* C2: a GET request is answered from the cache exactly when an entry is
\* stored and the current instant less the entry's stamp is below the TTL; in
\* every other case, an age equal to the TTL included, the request begins the
\* pipeline with a fetch of the first candidate.
C2_CacheHitIffFresh ==
  [][\A r \in Runs :
       Checks(r) =>
         LET stored == cache.data # Null /\ cache.timestamp # Null
             fresh == stored /\ now - cache.timestamp[1] < CACHE_TTL
         IN /\ fresh => /\ run'[r].source = "cache"
                        /\ run'[r].res = Some([status |-> 200, body |-> cache.data])
                        /\ run'[r].attempts = <<>>
            /\ ~fresh => /\ run'[r].pc = "fetching"
                         /\ run'[r].source = "none"
                         /\ run'[r].attempts = <<1>>]_vars

\* One request was answered from the cache, and another arrived when the
\* entry's age was exactly the TTL and went to the first candidate.
C2_Witness ==
  \E q, r \in Runs :
    /\ run[q].source = "cache"
    /\ cache.timestamp # Null
    /\ run[r].startTime - cache.timestamp[1] = CACHE_TTL
    /\ run[r].pc = "fetching"
    /\ run[r].attempts = <<1>>

\* The kind of the error run r has thrown, "none" when it has thrown none.
ThrownKind(r) == IF run[r].thrown = Null THEN "none" ELSE run[r].thrown[1].kind

\* C3: the step in which a run ends in failure leaves the report and the
\* stamp of the cache as they were; the run that assigned the stored report
\* is one that answered with it; and a GET request that arrives after some
\* run has failed, while the stored entry's age is below the TTL, is answered
\* with the stored report.
C3_FailedRunLeavesCache ==
  [][/\ \A r \in Runs :
          (run[r].pc # "done" /\ run'[r].source = "catch") =>
            cache' = cache /\ cacheBy' = cacheBy
     /\ cacheBy'.data # 0 => run'[cacheBy'.data].source = "fresh"
     /\ \A q, r \in Runs :
          (/\ Checks(r)
           /\ run[q].source = "catch"
           /\ cache.data # Null
           /\ now - cache.timestamp[1] < CACHE_TTL)
          => run'[r].res = Some([status |-> 200, body |-> cache.data])]_vars

\* Run p stored its report; run q then read a feed without a month and
\* failed (the feed is replaced only after p has read it, and q reads the
\* replacement); request r arrived after q had failed and was answered with
\* the report of p.
C3_Witness ==
  \E p, q, r \in Runs :
    /\ run[p].source = "fresh"
    /\ cacheBy.data = p
    /\ run[q].source = "catch"
    /\ ThrownKind(q) = "MissingTimestamp"
    /\ q \in run[r].after
    /\ run[r].source = "cache"
    /\ run[r].res = run[p].res

\* C4: in every run the attempts made so far are candidates 1, 2, ..., n in
\* that order; at most one fetch is pending, and it is the last attempt;
\* every attempt before the last has a recorded failure naming its candidate;
\* and a run that has obtained a text has made no attempt after the one that
\* obtained it.
C4_AttemptsInOrder ==
  \A r \in Runs :
    LET rn == run[r]
        n == Len(rn.attempts)
        urls == config.candidateUrls
    IN /\ \A k \in 1..n : rn.attempts[k] = k
       /\ n <= NumCandidates
       /\ Cardinality(rn.inflight) <= 1
       /\ rn.inflight \subseteq {n}
       /\ rn.pc \in {"fetching", "reading"} =>
            rn.inflight = {n} /\ Len(rn.errors) = n - 1
       /\ Len(rn.errors) \in {n - 1, n} \/ n = 0
       /\ \A k \in 1..Len(rn.errors) :
            SubSeq(rn.errors[k], 1, Len(urls[k]) + 4) = urls[k] \o " -> "
       /\ rn.usedUrl # Null =>
            /\ rn.pc = "done"
            /\ rn.usedUrl[1] = urls[n]
            /\ Len(rn.errors) = n - 1

\* Three candidates failed one after the other and the fourth gave the text
\* of a report.
C4_Witness ==
  \E r \in Runs :
    /\ run[r].attempts = <<1, 2, 3, 4>>
    /\ Len(run[r].errors) = 3
    /\ run[r].source = "fresh"

\* C5: where the first candidate's server fails and the second's answers with
\* a text, a run that has gone through the candidate loop has attempted the
\* first candidate once, then the second, and no other, and a report it
\* returns has the second candidate as its sourceUrl.
C5_FallbackToSecond ==
  \A r \in Runs :
    (/\ run[r].pc = "done"
     /\ run[r].attempts # <<>>
     /\ upstream[1] # "ok"
     /\ upstream[2] = "ok")
    => /\ run[r].attempts = <<1, 2>>
       /\ Len(run[r].errors) = 1
       /\ run[r].source = "fresh" =>
            run[r].res[1].body[1].sourceUrl =
              "https://www.ndbc.noaa.gov/data/5day/" \o config.STATION_ID \o "_5day.txt"

\* The first candidate answered 404, the second gave the text, and the
\* report was returned.
C5_Witness ==
  \E r \in Runs :
    /\ upstream = FirstNotOk
    /\ run[r].source = "fresh"
    /\ Len(run[r].errors) = 1
    /\ run[r].res[1].status = 200

\* C6, as stated: a run that has gone through the candidate loop fails with
\* the all-candidates-failed error exactly when it has attempted every
\* candidate and each has failed, and the error then holds one recorded
\* failure per candidate.
C6_AllFailedIffEveryCandidateFailed ==
  \A r \in Runs :
    (run[r].pc = "done" /\ run[r].attempts # <<>>) =>
      /\ ThrownKind(r) = "AllFailed" <=>
           (Len(run[r].attempts) = NumCandidates /\ Len(run[r].errors) = NumCandidates)
      /\ ThrownKind(r) = "AllFailed" => Len(run[r].errors) = NumCandidates

\* C7, as stated: no attempt, from the sending of its request to the arrival
\* of its body as text, is pending longer than the timeout.
C7_AttemptBoundedByTimeout ==
  \A r \in Runs :
    run[r].pc \in {"fetching", "reading"} => now - run[r].sent <= FETCH_TIMEOUT

\* C8: after every step the report and the stamp of the cache are both empty
\* or both set; both were assigned by the same run, the stored report is the
\* one that run answered with and the stamp is the instant at which it did;
\* an entry that is stored is never followed by an empty cache; and a request
\* answered from the cache gets the report that is stored with a stamp.
C8_EntryWrittenWhole ==
  [][/\ (cache'.data = Null) <=> (cache'.timestamp = Null)
     /\ cacheBy'.data = cacheBy'.timestamp
     /\ cache'.data # Null =>
          LET q == cacheBy'.data
          IN /\ q \in Runs
             /\ run'[q].res = Some([status |-> 200, body |-> cache'.data])
             /\ cache'.timestamp[1] =
                  run'[q].startTime + cache'.data[1].meta.fetchTimeMs
     /\ cache.data # Null => cache'.data # Null
     /\ \A r \in Runs :
          (run[r].pc = "new" /\ run'[r].source = "cache") =>
            /\ cache.timestamp # Null
            /\ run'[r].res = Some([status |-> 200, body |-> cache.data])]_vars

\* Two runs overlapped and each stored a report, the second replacing the
\* first with a different one; a third request was answered from the cache
\* with the report of the second.
C8_Witness ==
  \E p, q, r \in Runs :
    /\ run[p].source = "fresh" /\ run[q].source = "fresh"
    /\ p \notin run[q].after /\ q \notin run[p].after
    /\ cacheBy.data = q
    /\ run[q].res # run[p].res
    /\ run[r].source = "cache"
    /\ q \in run[r].after
    /\ run[r].res = run[q].res

\* The comment lines of `lines` that name YY, MM and DD.
HeaderLines(lines) ==
  {i \in 1..Len(lines) :
     StartsWithHash(lines[i]) /\ IsHeader(NonEmpty(SplitWs(StripMarker(lines[i]))))}

\* A text without a header line, or whose first header line is followed by
\* no line that is not a comment and has as many tokens as that header.
LacksHeaderOrRow(text) ==
  LET lines == FeedLines(text)
      h == Min(HeaderLines(lines))
      width == Len(NonEmpty(SplitWs(StripMarker(lines[h]))))
  IN \/ HeaderLines(lines) = {}
     \/ ~\E j \in (h + 1)..Len(lines) :
           ~StartsWithHash(lines[j]) /\ Len(SplitWs(lines[j])) >= width

\* The feeds of the model that lack a header or a row.
FeedsLackingHeaderOrRow == {text \in Feeds : LacksHeaderOrRow(text)}

\* C9, as stated: a run that has read a text without a valid header line, or
\* without a data row of sufficient width after the header, has failed, with
\* MalformedFeed when the text is not empty; it has returned no record and
\* the cache is not written.
C9_MalformedFeedFails ==
  \A r \in Runs :
    (/\ load = 1
     /\ run[r].usedUrl # Null
     /\ feed.text \in FeedsLackingHeaderOrRow)
    => /\ run[r].source = "catch"
       /\ run[r].res[1].status = 500
       /\ feed.text # "" => ThrownKind(r) = "MalformedFeed"
       /\ cache.data = Null

\* C10, as stated: a run that has found a header and a row fails with
\* MissingTimestamp exactly when one of year, month, day and hour has not
\* resolved to a number.
C10_MissingTimestampIffUnresolved ==
  \A r \in Runs :
    (/\ load = 1
     /\ run[r].usedUrl # Null
     /\ feed.text # ""
     /\ "tf" \in DOMAIN feed.parsed)
    => LET tf == feed.parsed.tf
       IN ThrownKind(r) = "MissingTimestamp" <=>
            (tf.year = Null \/ tf.month = Null \/ tf.day = Null \/ tf.hour = Null)

\* The reports that have been sent in a success response or are held in the
\* cache.
Reports ==
  {run[r].res[1].body[1] :
     r \in {q \in Runs : run[q].source \in {"fresh", "cache"}}}
    \cup (IF cache.data = Null THEN {} ELSE {cache.data[1]})

\* The time fields of the row a report was built from, by the header it was
\* built with (meta.latestDataRow, meta.parseHeader).
TimeFieldsOf(report) ==
  TimeFields(IdxOf(report.meta.parseHeader), report.meta.latestDataRow)

\* C11: every report sent in a success response and every report held in
\* the cache was built from a row whose year, month, day and hour resolved to
\* numbers, and its updatedIso is the instant those components (with the
\* minute, zero when unresolved) denote.
C11_ReportHasTimestamp ==
  \A report \in Reports :
    LET tf == TimeFieldsOf(report)
    IN /\ tf.year # Null /\ tf.month # Null /\ tf.day # Null /\ tf.hour # Null
       /\ Timestamp(tf) # Null
       /\ report.updatedIso = ToISOString(Timestamp(tf)[1])

\* A report for an observation at midnight (hour 00) was returned and is in
\* the cache.
C11_Witness ==
  \E r \in Runs :
    /\ feed.text = Hour00Feed
    /\ run[r].source = "fresh"
    /\ run[r].res[1].body[1].updatedIso = "2024-03-15T00:00:00.000Z"
    /\ cache.data = run[r].res[1].body

\* A token that stands for a value not reported: the missing marker, or
\* nines alone, or nines followed by a point and zeros alone.
SentinelToken(tok) ==
  \/ tok = "MM"
  \/ \E n \in 1..Len(tok) :
       /\ \A i \in 1..n : Char(tok, i) = "9"
       /\ \/ n = Len(tok)
          \/ /\ n + 1 < Len(tok)
             /\ Char(tok, n + 1) = "."
             /\ \A i \in (n + 2)..Len(tok) : Char(tok, i) = "0"

\* The value each token of Tokens denotes: m / 10^e, or unknown.
TokenValue(tok) ==
  CASE tok \in {"99", "999.0", "999", "9", "9.0", "99.00", "MM"} -> Null
    [] tok = "9.5" -> Some([m |-> 95, e |-> 1])
    [] tok \in {"0", "0.0"} -> Some([m |-> 0, e |-> 0])
    [] tok = "1.20" -> Some([m |-> 12, e |-> 1])
    [] tok = "99.5" -> Some([m |-> 995, e |-> 1])
    [] tok = "909" -> Some([m |-> 909, e |-> 0])
    [] tok = "19" -> Some([m |-> 19, e |-> 0])
    [] tok = "-5" -> Some([m |-> -5, e |-> 0])
    [] tok = "90" -> Some([m |-> 90, e |-> 0])

\* The token of the row a report was built from in the column `name` of the
\* header it was built with, Null when there is no such column or token.
TokenOf(report, name) ==
  LET header == report.meta.parseHeader
      row == report.meta.latestDataRow
      at == {i \in 1..Len(header) : header[i] = name}
  IN IF at = {} \/ Max(at) > Len(row) THEN Null ELSE Some(row[Max(at)])

\* The measurement fields read from a single column, by column name.
DirectFields ==
  [WD |-> "windDirDeg", WVHT |-> "waveHeightM", DPD |-> "dominantPeriodSec",
   APD |-> "averagePeriodSec"]

\* C12: in every report sent or cached, a field whose token is a sentinel of
\* nines or the missing marker is unknown; and a wave-height token of Tokens
\* yields exactly the value it denotes: unknown for "99", "999.0", "999",
\* "9", "9.0", "99.00" and "MM", the number for "9.5", "0", "1.20", "99.5",
\* "909", "19", "-5" and "90".
C12_SentinelsUnknownOthersParsed ==
  \A report \in Reports :
    /\ \A name \in DOMAIN DirectFields :
         LET tok == TokenOf(report, name)
         IN (tok # Null /\ SentinelToken(tok[1])) => report[DirectFields[name]] = Null
    /\ LET tok == TokenOf(report, "WVHT")
       IN (tok # Null /\ tok[1] \in Tokens) => report.waveHeightM = TokenValue(tok[1])

\* A report was returned whose water temperature, of token 999.0, and average
\* period, of token 9, are unknown and whose wave height, of token 1.20, is
\* 1.2.
C12_Witness ==
  \E r \in Runs :
    /\ feed.text = GoodFeed
    /\ run[r].source = "fresh"
    /\ run[r].res[1].body[1].waterTempC = Null
    /\ run[r].res[1].body[1].averagePeriodSec = Null
    /\ run[r].res[1].body[1].waveHeightM = Some([m |-> 12, e |-> 1])

\* The columns each measurement field of the record may be read from.
FieldColumns ==
  [windDirDeg |-> <<"WD">>, windKts |-> <<"WSPD">>, windGustKts |-> <<"GST">>,
   waveHeightM |-> <<"WVHT">>, waveHeightFt |-> <<"WVHT">>,
   dominantPeriodSec |-> <<"DPD">>, averagePeriodSec |-> <<"APD">>,
   swellDirDeg |-> <<"MWD", "MWWD", "WVDIR", "WAVE_DIR">>,
   barometricPressureHpa |-> <<"BARO", "PRES">>,
   waterTempC |-> <<"WTMP", "WT", "WATER_TEMP", "SEA_TEMP">>,
   waterTempF |-> <<"WTMP", "WT", "WATER_TEMP", "SEA_TEMP">>]

\* The tokens a report's row holds in the columns of field f.
TokensFor(report, f) ==
  {TokenOf(report, FieldColumns[f][k])[1] :
     k \in {j \in 1..Len(FieldColumns[f]) : TokenOf(report, FieldColumns[f][j]) # Null}}

\* What a measurement of zero is in field f: 32 in degrees Fahrenheit.
ZeroIn(f) == IF f = "waterTempF" THEN [m |-> 32, e |-> 0] ELSE [m |-> 0, e |-> 0]

\* C13: in every report sent or cached, a measurement field whose only
\* token is "0" or "0.0" holds zero (32 for the Fahrenheit temperature), and
\* a field none of whose columns is in the header, or all of whose tokens
\* are missing, is unknown.
C13_ZeroKeptNeverDefault ==
  \A report \in Reports :
    \A f \in DOMAIN FieldColumns :
      LET toks == TokensFor(report, f)
      IN /\ (toks # {} /\ toks \subseteq {"0", "0.0"}) => report[f] = Some(ZeroIn(f))
         /\ (\A tok \in toks : SentinelToken(tok)) => report[f] = Null

\* A report was returned from a row of zeros without a gust column: wind,
\* waves, periods, swell direction, pressure and water temperature are zero
\* (32 in Fahrenheit) and the gust is unknown.
C13_Witness ==
  \E r \in Runs :
    LET report == run[r].res[1].body[1]
    IN /\ feed.text = ZeroFeed
       /\ run[r].source = "fresh"
       /\ \A f \in DOMAIN FieldColumns \ {"windGustKts"} : report[f] = Some(ZeroIn(f))
       /\ report.windGustKts = Null

\* The token of a report's row in the first of field f's columns that the
\* header names, Null when it names none.
FirstAliasToken(report, f) ==
  LET header == report.meta.parseHeader
      cols == FieldColumns[f]
      present == {k \in 1..Len(cols) : \E i \in 1..Len(header) : header[i] = cols[k]}
  IN IF present = {} THEN Null ELSE TokenOf(report, cols[Min(present)])

\* The fields of the record that are read through a list of column names.
AliasFields == {"swellDirDeg", "barometricPressureHpa", "waterTempC"}

\* C14, as stated: in every report, a field read through a list of column
\* names is unknown when the token in the first of those columns that the
\* header names is a missing-value sentinel, whatever later columns hold.
C14_FirstAliasPresentDecides ==
  \A report \in Reports :
    \A f \in AliasFields :
      LET tok == FirstAliasToken(report, f)
      IN (tok # Null /\ SentinelToken(tok[1])) => report[f] = Null

\* C15, as stated: a run that has read a feed in which a field's canonical
\* column is absent and an alternate holds a number (the hour under HH, the
\* swell direction under MWWD, the pressure under PRES, the water temperature
\* under WT; or the year under YYYY) has succeeded, and the field has that
\* number.
C15_AlternateColumnResolves ==
  \A r \in Runs :
    (/\ load = 1
     /\ run[r].usedUrl # Null
     /\ feed.text \in {AlternateFeed, YearAliasFeed})
    => /\ run[r].source = "fresh"
       /\ run[r].res[1].body[1].updatedIso = "2024-03-15T18:00:00.000Z"
       /\ feed.text = AlternateFeed =>
            /\ run[r].res[1].body[1].swellDirDeg = Some([m |-> 200, e |-> 0])
            /\ run[r].res[1].body[1].barometricPressureHpa = Some([m |-> 1013, e |-> 0])
            /\ run[r].res[1].body[1].waterTempC = Some([m |-> 152, e |-> 1])

\* The tokens of the first comment line of a text that names YY, MM and DD.
FirstHeader(text) ==
  LET lines == FeedLines(text)
  IN NonEmpty(SplitWs(StripMarker(lines[Min(HeaderLines(lines))])))

\* C16, as stated: a report is built with the first comment line of the text
\* that names YY, MM and DD as its header, also when a later comment line
\* names them too.
C16_FirstHeaderIsUsed ==
  \A r \in Runs :
    (load = 1 /\ run[r].source = "fresh") =>
      run[r].res[1].body[1].meta.parseHeader = FirstHeader(feed.text)

\* The lines of a text after its first header line that are not comments and
\* have at least as many tokens as that header.
WideRows(text) ==
  LET lines == FeedLines(text)
      h == Min(HeaderLines(lines))
  IN {j \in (h + 1)..Len(lines) :
        ~StartsWithHash(lines[j]) /\ Len(SplitWs(lines[j])) >= Len(FirstHeader(text))}

\* C17, as stated: a report is built from the first line after the header
\* that is not a comment and has at least as many tokens as the header.
C17_FirstWideRowIsUsed ==
  \A r \in Runs :
    (load = 1 /\ run[r].source = "fresh") =>
      /\ WideRows(feed.text) # {}
      /\ run[r].res[1].body[1].meta.latestDataRow =
           SplitWs(FeedLines(feed.text)[Min(WideRows(feed.text))])

\* The header and the row of the worked example.
ExampleHeader ==
  <<"YY", "MM", "DD", "hh", "mm", "WD", "WSPD", "GST", "WVHT", "DPD", "APD", "WTMP">>
ExampleRow ==
  <<"24", "03", "15", "18", "00", "270", "5.1", "6.3", "1.20", "11", "9", "999.0">>

\* C18: a run that read the example feed ends in a 200 response, and every
\* report built from the example header and row is stamped
\* 2024-03-15T18:00:00Z and carries windDirDeg 270, windKts 9.913584
\* (5.1 * 1.94384), waveHeightFt 3.937008 (1.20 * 3.28084),
\* dominantPeriodSec 11 and no waterTempF.
C18_ExampleReport ==
  /\ \A r \in Runs :
       (load = 1 /\ feed.text = GoodFeed /\ run[r].pc = "done"
          /\ run[r].usedUrl # Null) =>
         /\ run[r].source = "fresh"
         /\ run[r].res[1].status = 200
         /\ run[r].res[1].body[1].meta.parseHeader = ExampleHeader
         /\ run[r].res[1].body[1].meta.latestDataRow = ExampleRow
  /\ \A report \in Reports :
       (report.meta.parseHeader = ExampleHeader
          /\ report.meta.latestDataRow = ExampleRow) =>
         /\ report.updatedIso = "2024-03-15T18:00:00.000Z"
         /\ report.windDirDeg = Some([m |-> 270, e |-> 0])
         /\ report.windKts = Some([m |-> 9913584, e |-> 6])
         /\ report.waveHeightFt = Some([m |-> 3937008, e |-> 6])
         /\ report.dominantPeriodSec = Some([m |-> 11, e |-> 0])
         /\ report.waterTempF = Null

\* The example feed was fetched, and its report was returned and cached.
C18_Witness ==
  \E r \in Runs :
    /\ feed.text = GoodFeed
    /\ run[r].source = "fresh"
    /\ run[r].res[1].body[1].meta.latestDataRow = ExampleRow
    /\ run[r].res[1].body[1].windKts # Null
    /\ cache.data = run[r].res[1].body

\* The measurement fields of a report.
ValueFields ==
  {"windDirDeg", "windKts", "windGustKts", "waveHeightM", "waveHeightFt",
   "dominantPeriodSec", "averagePeriodSec", "swellDirDeg",
   "barometricPressureHpa", "waterTempC", "waterTempF"}

\* C19: a run that fetched a well-formed feed ends in a 200 response whose
\* measurement fields are the normalized values of the feed's row, whatever
\* their size, and the cache holds that same report; for the feed whose wind,
\* wave height, period, swell direction and water temperature are all out of
\* range the report carries 116.6304 kts, 65.6168 ft, 2 s, 400 degrees and
\* 23 degrees Fahrenheit.
C19_ValidationLeavesData ==
  \A r \in Runs :
    (load = 1 /\ feed.parsed.ok /\ run[r].pc = "done" /\ run[r].usedUrl # Null) =>
      /\ run[r].source = "fresh"
      /\ run[r].res[1].status = 200
      /\ \A f \in ValueFields : run[r].res[1].body[1][f] = feed.parsed[f]
      /\ cache.data = run[r].res[1].body
      /\ cache.timestamp # Null
      /\ feed.text = OutOfRangeFeed =>
           /\ run[r].res[1].body[1].windKts = Some([m |-> 1166304, e |-> 4])
           /\ run[r].res[1].body[1].waveHeightFt = Some([m |-> 656168, e |-> 4])
           /\ run[r].res[1].body[1].dominantPeriodSec = Some([m |-> 2, e |-> 0])
           /\ run[r].res[1].body[1].swellDirDeg = Some([m |-> 400, e |-> 0])
           /\ run[r].res[1].body[1].waterTempF = Some([m |-> 23, e |-> 0])

\* A report with five values out of range was returned and cached.
C19_Witness ==
  \E r \in Runs :
    /\ feed.text = OutOfRangeFeed
    /\ run[r].source = "fresh"
    /\ Len(validateData(run[r].res[1].body[1]).warnings) = 5
    /\ cache.data = run[r].res[1].body

\* The warnings that went out with the response of run r: a warnings member
\* of the response or of its body, or else what the run wrote to the console.
WarningsWith(r) ==
  LET resp == run[r].res[1]
      body == resp.body[1]
  IN IF "warnings" \in DOMAIN resp THEN Some(resp["warnings"])
     ELSE IF "warnings" \in DOMAIN body THEN Some(body["warnings"])
     ELSE run[r].warned

\* C20, as stated and read at its weakest: a 200 response, fresh or from the
\* cache, whose report has values out of range goes out with validation
\* warnings, be it in the response or on the console.
C20_SomeWarningWhenOutOfRange ==
  \A r \in Runs :
    (run[r].source \in {"fresh", "cache"}
       /\ validateData(run[r].res[1].body[1]).warnings # <<>>) =>
      WarningsWith(r) # Null

\* C21: outside development mode every run that failed was answered with
\* status 500 and the one body {error: "Failed to fetch Scripps buoy data"},
\* so the responses of any two failed runs are equal whatever was thrown.
C21_FailuresIndistinguishable ==
  ~config.isDevelopment =>
    /\ \A r \in Runs :
         run[r].thrown # Null =>
           run[r].res = Some([status |-> 500,
                              body |-> Some([error |-> "Failed to fetch Scripps buoy data",
                                             detail |-> Null])])
    /\ \A q, r \in Runs :
         (run[q].source = "catch" /\ run[r].source = "catch") =>
           run[q].res = run[r].res

\* In production a run that fetched a feed failed for want of a timestamp.
C21_Witness ==
  \E r \in Runs :
    /\ ~config.isDevelopment
    /\ run[r].source = "catch"
    /\ ThrownKind(r) = "MissingTimestamp"
    /\ run[r].res[1].status = 500

\* The loads whose every attempt failed: fetchWithRetry threw.
KeptFailing == {l \in Loads : ld[l].outcome = "threw" /\ ld[l].data = Null}

\* C22, as stated: a load whose request kept failing slept backoffs of 1 s,
\* 2 s and 4 s before its error was surfaced.
C22_BackoffOneTwoFour ==
  \A l \in KeptFailing : ld[l].waits = <<1000, 2000, 4000>>

\* The milliseconds from the opening of the page (19:00:00.000Z) to the
\* instant a timestamp of the payloads names.
StampOffset(iso) ==
  CASE iso = "2024-03-15T18:00:00.000Z" -> -3600000
    [] iso = "2024-03-15T17:59:59.999Z" -> -3600001
    [] iso = "2024-03-15T18:10:00.000Z" -> -3000000

\* Whether a report with this updatedIso, looked at when the page's clock
\* reads t, has no timestamp or one more than an hour old.
OverAnHourOld(updatedIso, t) ==
  \/ updatedIso = Null
  \/ /\ updatedIso # Some("soon")
     /\ t - StampOffset(updatedIso[1]) > 3600000

\* C23: in the step in which a load shows a report, the report is marked
\* stale exactly when its timestamp is missing or more than one hour before
\* the clock's reading, the header status reads "Buoy conditions (stale)"
\* when it is and "Buoy conditions" when it is not, the report is one the
\* endpoint sent, and the handler's cache and the rest of the server are as
\* they were.
C23_StaleIffOverAnHour ==
  [][\A l \in Loads :
       (ld[l].pc = "fetching" /\ ld'[l].outcome = "ok") =>
         /\ ld'[l].data \in {Some(data) : data \in Payloads}
         /\ ld'[l].stale = Some(OverAnHourOld(ld'[l].data[1].updatedIso, wall))
         /\ dom'.headerStatus =
              IF OverAnHourOld(ld'[l].data[1].updatedIso, wall)
                THEN "Buoy conditions (stale)" ELSE "Buoy conditions"
         /\ cache' = cache
         /\ server' = server]_vars

\* An auto-refresh showed a report that was exactly one hour old, as not
\* stale.
C23_Witness ==
  \E l \in Loads :
    /\ ld[l].outcome = "ok"
    /\ ld[l].origin = "interval"
    /\ wall = REFRESH_INTERVAL
    /\ ld[l].data[1].updatedIso = Some("2024-03-15T18:10:00.000Z")
    /\ ld[l].stale = Some(FALSE)
    /\ dom.headerStatus = "Buoy conditions"

\* The page shows the offline error.
OfflineShown ==
  dom.errorBox = Some(OfflineMessage) /\ dom.headerStatus = "Offline"

\* C24: a DOMContentLoaded step or an auto-refresh tick taken while the
\* browser is offline starts no load and sends no request, and leaves the
\* offline error shown, as does the step in which the browser goes offline;
\* the step in which the browser comes back online, once the page's
\* listeners are set, clears the error and starts a new load whose first
\* request is sent.
C24_OfflineNoRequestOnlineReloads ==
  [][/\ ((~ready /\ ready' /\ ~onLine) \/ (ready /\ interval' # interval /\ ~onLine)) =>
          /\ ld' = ld /\ started' = started
          /\ OfflineShown'
     /\ (ready /\ onLine /\ ~onLine') => (OfflineShown' /\ ld' = ld)
     /\ (ready /\ ~onLine /\ onLine') =>
          /\ started' = started + 1
          /\ ld'[started'].pc = "fetching"
          /\ ld'[started'].attempts = 1
          /\ \A l \in Loads \ {started'} : ld'[l] = ld[l]
          /\ dom'.errorBox = Null]_vars

\* The page was opened offline and made no initial load; the browser has
\* come back online, the error is gone and the first load is under way.
C24_Witness ==
  /\ ready /\ onLine
  /\ started = 1
  /\ ld[1].origin = "online"
  /\ ld[1].pc = "fetching"
  /\ dom.errorBox = Null

\* C25, as stated: no two fetch attempts of a run go to the same location,
\* whatever the station identifier.
C25_OneAttemptPerLocation ==
  \A r \in Runs :
    \A j, k \in 1..Len(run[r].attempts) :
      j < k =>
        config.candidateUrls[run[r].attempts[j]] # config.candidateUrls[run[r].attempts[k]]

Pipeline == <<"Fetch", "Parse", "Extract", "Normalize", "Validate", "Store", "Respond">>

\* The position of a stage among the steps of a run, 0 when it was not
\* entered.
StepAt(r, stage) ==
  IF \E k \in 1..Len(run[r].steps) : run[r].steps[k] = stage
    THEN Min({k \in 1..Len(run[r].steps) : run[r].steps[k] = stage})
    ELSE 0

ProducedAt(q) == run[q].startTime + run[q].res[1].body[1].meta.fetchTimeMs

\* C28: a request answered from the cache leaves the stored report, its stamp
\* and their writer as they were, and is answered only while the stamp is
\* less than five minutes old; so every report served from the cache was
\* produced by a fresh run less than five minutes before the request that got
\* it, whatever hits came in between.
C28_HitLeavesCache ==
  /\ [][\A r \in Runs :
          (run[r].pc = "new" /\ run'[r].source = "cache") =>
             /\ cache' = cache
             /\ cacheBy' = cacheBy
             /\ cache.timestamp # Null
             /\ now - cache.timestamp[1] < CACHE_TTL
             /\ run'[r].res[1].body = cache.data]_vars
  /\ [](\A r \in Runs :
          run[r].source = "cache" =>
            \E q \in Runs :
              /\ run[q].source = "fresh"
              /\ run[q].res = run[r].res
              /\ ProducedAt(q) <= run[r].startTime
              /\ run[r].startTime - ProducedAt(q) < CACHE_TTL)

\* A report was served from the cache ten seconds before the end of its five
\* minutes, and the request that arrived at the end went to the upstream.
C28_Witness ==
  \E q, h, r \in Runs :
    /\ run[q].source = "fresh"
    /\ run[h].source = "cache"
    /\ run[h].res = run[q].res
    /\ run[h].startTime = ProducedAt(q) + CACHE_TTL - FETCH_TIMEOUT
    /\ run[r].startTime = ProducedAt(q) + CACHE_TTL
    /\ run[r].attempts # <<>>

\* The columns of field f that a header names at a position inside a row.
ReadableColumns(header, row, f) ==
  {FieldColumns[f][k] : k \in {j \in 1..Len(FieldColumns[f]) :
     \E i \in 1..Len(header) : header[i] = FieldColumns[f][j] /\ i <= Len(row)}}

\* C29, as stated: in a report built from a feed, a measurement field none
\* of whose columns is named by the feed's header (its first comment line
\* naming YY, MM and DD) at a position inside the row used is unknown, also
\* when the feed has a second such comment line.
C29_AbsentColumnIsUnknown ==
  \A r \in Runs :
    (load = 1 /\ run[r].source = "fresh") =>
      LET report == run[r].res[1].body[1]
      IN \A f \in DOMAIN FieldColumns :
           ReadableColumns(FirstHeader(feed.text), report.meta.latestDataRow, f) = {}
             => report[f] = Null

\* C30: in every report sent or cached, waveHeightFt is unknown exactly when
\* waveHeightM is, waterTempF exactly when waterTempC is, and windKts and
\* windGustKts exactly when the WSPD and GST tokens of the row give no
\* number; a field that is known holds the conversion of the value it was
\* converted from.
C30_UnknownThroughConversion ==
  \A report \in Reports :
    LET windMs == parseNum(TokenOf(report, "WSPD"))
        gustMs == parseNum(TokenOf(report, "GST"))
    IN /\ report.waveHeightFt = Null <=> report.waveHeightM = Null
       /\ report.waterTempF = Null <=> report.waterTempC = Null
       /\ report.windKts = Null <=> windMs = Null
       /\ report.windGustKts = Null <=> gustMs = Null
       /\ report.waveHeightM # Null =>
            report.waveHeightFt[1] = NumMul(report.waveHeightM[1], [m |-> 328084, e |-> 5])
       /\ report.waterTempC # Null =>
            NumAdd(NumMul(report.waterTempF[1], Int2Num(5)), Int2Num(-160))
              = NumMul(report.waterTempC[1], Int2Num(9))
       /\ windMs # Null => report.windKts[1] = NumMul(windMs[1], [m |-> 194384, e |-> 5])
       /\ gustMs # Null => report.windGustKts[1] = NumMul(gustMs[1], [m |-> 194384, e |-> 5])

\* A report was sent whose water temperature is unknown in both units while
\* its wave height and wind are known in both, and whose row holds a
\* sentinel in the temperature column.
C30_Witness ==
  \E report \in Reports :
    /\ TokenOf(report, "WTMP") = Some("999.0")
    /\ report.waterTempC = Null /\ report.waterTempF = Null
    /\ report.waveHeightM # Null /\ report.waveHeightFt # Null
    /\ report.windKts # Null /\ report.windGustKts # Null

\* The minute of a report's row: zero when the header has no mm column at a
\* position of the row or the token there stands for a missing value.
MinuteOf(report) ==
  LET tok == TokenOf(report, "mm")
  IN IF tok = Null \/ SentinelToken(tok[1]) THEN 0
     ELSE Trunc(TimeFieldsOf(report).mins[1])

\* C31: the updatedIso of every report sent or cached whose row gives a
\* year from 1 to 9999 (after 2000 is added to a year below 100), a month
\* from 1 to 12, a day from 1 to 28 and an hour from 0 to 23 reads
\* year-month-day T hour:minute:00.000Z with exactly those components, the
\* minute being zero when the minute column is absent or its token missing.
C31_TimestampFromComponents ==
  \A report \in Reports :
    LET tf == TimeFieldsOf(report)
        y0 == Trunc(tf.year[1])
        y == IF y0 < 100 THEN 2000 + y0 ELSE y0
        mo == Trunc(tf.month[1])
        d == Trunc(tf.day[1])
        h == Trunc(tf.hour[1])
    IN (/\ y \in 1..9999 /\ mo \in 1..12 /\ d \in 1..28 /\ h \in 0..23
        /\ MinuteOf(report) \in 0..59)
       => report.updatedIso =
            Pad(y, 4) \o "-" \o Pad(mo, 2) \o "-" \o Pad(d, 2) \o "T" \o Pad(h, 2)
              \o ":" \o Pad(MinuteOf(report), 2) \o ":00.000Z"

\* A report was sent for a row whose minute is reported missing, stamped on
\* the hour.
C31_Witness ==
  \E r \in Runs :
    /\ feed.text = MissingMinuteFeed
    /\ run[r].source = "fresh"
    /\ TokenOf(run[r].res[1].body[1], "mm") = Some("MM")
    /\ run[r].res[1].body[1].updatedIso = "2024-03-15T18:00:00.000Z"

\* The range of each field of a report that is a wave height in feet, a
\* period, a direction, a speed in knots or a water temperature in degrees
\* Fahrenheit, with the unit its warning prints.
Ranges ==
  [waveHeightFt |-> [lo |-> 0, hi |-> 50, unit |-> "ft"],
   dominantPeriodSec |-> [lo |-> 3, hi |-> 30, unit |-> "s"],
   averagePeriodSec |-> [lo |-> 3, hi |-> 30, unit |-> "s"],
   swellDirDeg |-> [lo |-> 0, hi |-> 360, unit |-> "°"],
   windDirDeg |-> [lo |-> 0, hi |-> 360, unit |-> "°"],
   windKts |-> [lo |-> 0, hi |-> 100, unit |-> "kts"],
   windGustKts |-> [lo |-> 0, hi |-> 100, unit |-> "kts"],
   waterTempF |-> [lo |-> 32, hi |-> 120, unit |-> "°F"]]

\* A field that is present and outside the inclusive range [lo, hi].
Outside(v, lo, hi) ==
  v # Null /\ (NumLt(v[1], Int2Num(lo)) \/ NumLt(Int2Num(hi), v[1]))

\* C32, as stated: validateData returns a warning for a field of a report
\* exactly when the field is present and lies outside its inclusive range,
\* for each field of the report that has a range.
C32_EachFieldChecked ==
  \A report \in Reports :
    LET w == validateData(report).warnings
    IN \A f \in DOMAIN Ranges :
         Outside(report[f], Ranges[f].lo, Ranges[f].hi)
           <=> \E k \in 1..Len(w) :
                 Some(w[k].value) = report[f] /\ w[k].unit = Ranges[f].unit

\* The value each token of OtherTokens denotes, unknown for the markers, for
\* nines followed by zeros and for what is no number.
OtherValue(tok) ==
  CASE tok \in {"NaN", "N/A", "abc", "1.2.3", "9.00"} -> Null
    [] tok = "09" -> Some([m |-> 9, e |-> 0])
    [] tok = "99.9" -> Some([m |-> 999, e |-> 1])
    [] tok = "9." -> Some([m |-> 9, e |-> 0])
    [] tok = "-9" -> Some([m |-> -9, e |-> 0])
    [] tok = ".5" -> Some([m |-> 5, e |-> 1])
    [] tok = "0999" -> Some([m |-> 999, e |-> 0])
    [] tok = "9.05" -> Some([m |-> 905, e |-> 2])

\* C33: parseNum gives unknown for an absent token, for the empty token and
\* for "MM", "NaN" and "N/A"; in every report sent or cached a wave-height
\* token of Tokens or OtherTokens yields exactly the value it denotes, which
\* is unknown exactly for the markers, for nines optionally followed by a
\* point and zeros, and for what is no number; and a row with "9" and "9.0"
\* gives unknown where "09" and "99.9" give 9 and 99.9.
C33_ParseNumUnknownExactly ==
  /\ parseNum(Null) = Null
  /\ \A str \in {"", " ", "MM", "NaN", "N/A", " MM"} : parseNum(Some(str)) = Null
  /\ \A report \in Reports :
       LET tok == TokenOf(report, "WVHT")
       IN /\ (tok # Null /\ tok[1] \in OtherTokens) =>
               report.waveHeightM = OtherValue(tok[1])
          /\ (tok # Null /\ tok[1] \in Tokens) =>
               report.waveHeightM = TokenValue(tok[1])
          /\ (tok # Null /\ tok[1] \in Tokens \cup OtherTokens) =>
               (report.waveHeightM = Null <=>
                  \/ tok[1] \in {"MM", "NaN", "N/A"}
                  \/ SentinelToken(tok[1])
                  \/ tok[1] \in {"abc", "1.2.3"})
          /\ tok = Null => report.waveHeightM = Null
  /\ \A r \in Runs :
       (feed.text = NinesFeed /\ run[r].source = "fresh") =>
          /\ run[r].res[1].body[1].waveHeightM = Null
          /\ run[r].res[1].body[1].averagePeriodSec = Null
          /\ run[r].res[1].body[1].dominantPeriodSec = Some([m |-> 9, e |-> 0])
          /\ run[r].res[1].body[1].waterTempC = Some([m |-> 999, e |-> 1])

\* A report was sent for the row that holds "9", "09", "9.0" and "99.9".
C33_Witness ==
  \E r \in Runs :
    /\ feed.text = NinesFeed
    /\ run[r].source = "fresh"
    /\ TokenOf(run[r].res[1].body[1], "WVHT") = Some("9")
    /\ run[r].res[1].body[1].waveHeightM = Null
    /\ run[r].res[1].body[1].dominantPeriodSec # Null

\* The observation of report a is earlier than that of report b.
ObservedEarlier(a, b) ==
  a.updatedIso # b.updatedIso
    /\ LaterByMoreThan(DateParse(b.updatedIso)[1], DateParse(a.updatedIso)[1], 0)

\* C34, as stated: while the upstream's feed only moves forward, the report
\* held in the cache is never of an earlier observation than a report some
\* run has fetched and stored, whatever the order in which overlapping runs
\* get their responses.
C34_CacheNeverMovesBack ==
  \A q \in Runs :
    (run[q].source = "fresh" /\ cache.data # Null) =>
      ~ObservedEarlier(cache.data[1], run[q].res[1].body[1])

\* C35: the step that handles an OPTIONS request answers it with status 200
\* and no body, starts no fetch and leaves the cache and the clock as they
\* were, whether the cache is empty, fresh or expired; and an OPTIONS request
\* stays answered that way and never writes the cache.
C35_OptionsTouchesNothing ==
  /\ [][\A r \in Runs :
          (run[r].pc = "new" /\ run'[r].method = "OPTIONS") =>
             /\ run'[r].pc = "done"
             /\ run'[r].res = Some([status |-> 200, body |-> Null])
             /\ run'[r].attempts = <<>> /\ run'[r].inflight = {}
             /\ run'[r].timer = Null
             /\ cache' = cache /\ cacheBy' = cacheBy]_vars
  /\ [](\A r \in Runs :
          run[r].method = "OPTIONS" =>
             /\ run[r].res = Some([status |-> 200, body |-> Null])
             /\ run[r].attempts = <<>> /\ run[r].usedUrl = Null
             /\ run[r].steps = <<"Respond">>
             /\ cacheBy.data # r /\ cacheBy.timestamp # r)

\* An OPTIONS request arrived while the cache held a fresh report and was
\* answered with no body, and another arrived when nothing had been stored.
C35_Witness ==
  \E p, q, r \in Runs :
    /\ run[p].method = "OPTIONS" /\ run[p].pc = "done" /\ run[p].after = {}
    /\ run[q].source = "fresh" /\ q \in run[r].after /\ cacheBy.data = q
    /\ run[r].method = "OPTIONS"
    /\ run[r].startTime - StoredAt(q) < CACHE_TTL
    /\ run[r].res = Some([status |-> 200, body |-> Null])

ClickPending == {l \in Loads : ld[l].origin = "click" /\ ld[l].pc \in {"fetching", "backoff"}}

\* C37: the refresh button is disabled, and spinning, exactly while a load
\* started by a click on it has not settled; the step in which such a load
\* settles, with a report or with an error, leaves the button enabled and
\* not spinning; and no other step enables it.
C37_ButtonDisabledWhileLoading ==
  /\ [](/\ dom.disabled <=> ClickPending # {}
        /\ dom.spinning <=> dom.disabled
        /\ Cardinality(ClickPending) <= 1)
  /\ [][/\ \A l \in Loads :
             (l \in ClickPending /\ ld'[l].pc = "done") =>
                /\ ld'[l].outcome \in {"ok", "threw"}
                /\ ~dom'.disabled /\ ~dom'.spinning
        /\ (dom.disabled /\ ~dom'.disabled) =>
             \E l \in ClickPending : ld'[l].pc = "done"]_vars

\* The button was clicked twice; the first load failed after its retries and
\* the second brought a report; the button is enabled again.
C37_Witness ==
  \E k, l \in Loads :
    /\ ld[k].origin = "click" /\ ld[k].outcome = "threw" /\ ld[k].data = Null
    /\ ld[l].origin = "click" /\ ld[l].outcome = "ok"
    /\ ~dom.disabled /\ ~dom.spinning

\* The loads that settle in the step.
Settling == {l \in Loads : ld[l].pc \in {"fetching", "backoff"} /\ ld'[l].pc = "done"}

\* The whole of C38: the step in which a load settles leaves the loading
\* indicator off, and the step in which a load settles with a report leaves
\* no error message on the page, whatever started the load.
C38_SettledLoadLeavesPageClean ==
  [][\A l \in Settling :
       /\ ~dom'.loading
       /\ ld'[l].outcome = "ok" => dom'.errorBox = Null]_vars

\* The part of C38 about the loading indicator alone.
C38_LoadingOffWhenSettled ==
  [][\A l \in Settling : ~dom'.loading]_vars

\* The part of C38 about the error message, for the loads other than the
\* silent ones.
C38_NoErrorAfterLoudSuccess ==
  [][\A l \in Settling :
       (ld'[l].outcome = "ok" /\ ld[l].showLoading) => dom'.errorBox = Null]_vars

\* C38, in the case it names: when a silent load started by the timer
\* settles with a report while the message of an earlier failed load is on
\* the page, every other load being over, the step leaves no error message
\* on the page.
C38_SilentSuccessAfterFailure ==
  [][\A l \in Settling :
       (/\ ld'[l].outcome = "ok" /\ ld[l].origin = "interval"
        /\ \A k \in Loads \ {l} : ld[k].outcome = "threw"
        /\ dom.errorBox = Some(LoadFailedMessage))
         => dom'.errorBox = Null]_vars
=============================================================================
